---------------------------- MODULE Spec2Model ----------------------------
(***************************************************************************)
(* Model of the Virtyum backend's Service resource: the Mongoose schema of *)
(* models/Service.js and the handlers of controllers/serviceController.js  *)
(* (src/unnamed/part_000, lines 1-380), run against a document store, and  *)
(* the write handlers of the inline serverless application (part_000,      *)
(* lines 381-699), which declares the schema a second time.                *)
(*                                                                         *)
(* JavaScript values are tagged records, strings are sequences of          *)
(* one-character strings, so that trimming, capitalisation, casting and    *)
(* the `||` fallbacks are computed the way the code computes them.          *)
(***************************************************************************)
EXTENDS Integers, Sequences, FiniteSets, TLC

(***************************************************************************)
(* Bounds of the model.                                                    *)
(***************************************************************************)
\* identifiers the store hands out (records ever created)
MaxIds == 2
\* the clock (Date.now()) runs from 0 to MaxClock
MaxClock == 1

(***************************************************************************)
(* JavaScript values.                                                      *)
(***************************************************************************)
Undef == [t |-> "undefined", n |-> 0, s |-> <<>>]
Null == [t |-> "null", n |-> 0, s |-> <<>>]
NaN == [t |-> "NaN", n |-> 0, s |-> <<>>]
False == [t |-> "boolean", n |-> 0, s |-> <<>>]
Num(k) == [t |-> "number", n |-> k, s |-> <<>>]
Str(q) == [t |-> "string", n |-> 0, s |-> q]

IsNum(v) == v.t = "number"
IsStr(v) == v.t = "string"
\* v == null in JavaScript: null or undefined
IsNullish(v) == v.t \in {"undefined", "null"}

\* ToBoolean: what `a || b` and `if (a)` test
Truthy(v) ==
  CASE v.t = "number" -> v.n # 0
    [] v.t = "string" -> v.s # <<>>
    [] v.t = "boolean" -> v.n = 1
    [] OTHER -> FALSE

\* mutant: the fallback of a || b is never taken
Or_Left(a, b) == a

\* mutant: the fallback of a || b is always taken
Or_Right(a, b) == b

\* a || b
Or(a, b) == IF Truthy(a) THEN a ELSE b

(***************************************************************************)
(* Strings.                                                                *)
(***************************************************************************)
Rep(c, k) == [i \in 1..k |-> c]

IsSpace(c) == c \in {" ", "\t"}

RECURSIVE TrimLeft(_)
TrimLeft(q) ==
  IF q # <<>> /\ IsSpace(Head(q)) THEN TrimLeft(Tail(q)) ELSE q

RECURSIVE TrimRight(_)
TrimRight(q) ==
  IF q # <<>> /\ IsSpace(q[Len(q)]) THEN TrimRight(SubSeq(q, 1, Len(q) - 1)) ELSE q

\* String.prototype.trim
Trim(q) == TrimRight(TrimLeft(q))

\* String.prototype.toUpperCase on one character; the result is a string, for
\* the sharp s ("sz" stands for U+00DF) upper-cases to the two characters "SS"
ToUpperCase(c) ==
  CASE c = "a" -> <<"A">> [] c = "b" -> <<"B">> [] c = "c" -> <<"C">>
    [] c = "d" -> <<"D">> [] c = "e" -> <<"E">> [] c = "f" -> <<"F">>
    [] c = "s" -> <<"S">> [] c = "w" -> <<"W">> [] c = "x" -> <<"X">>
    [] c = "sz" -> <<"S", "S">>
    [] OTHER -> <<c>>

DigitChars == <<"0", "1", "2", "3", "4", "5", "6", "7", "8", "9">>
IsDigit(c) == \E i \in 1..10 : DigitChars[i] = c
DigitVal(c) == (CHOOSE i \in 1..10 : DigitChars[i] = c) - 1

RECURSIVE DecStr(_)
\* String(k) of an integer
DecStr(k) ==
  IF k < 0 THEN <<"-">> \o DecStr(0 - k)
  ELSE IF k < 10 THEN <<DigitChars[k + 1]>>
  ELSE DecStr(k \div 10) \o <<DigitChars[(k % 10) + 1]>>

RECURSIVE ParseDigits(_, _)
ParseDigits(q, acc) ==
  IF q = <<>> THEN acc ELSE ParseDigits(Tail(q), 10 * acc + DigitVal(Head(q)))

\* Number(str): surrounding white space ignored, "" is 0, decimal digits with an
\* optional sign are the integer, anything else is NaN
ToNumber(q) ==
  LET r == Trim(q)
      neg == r # <<>> /\ Head(r) = "-"
      d == IF neg THEN Tail(r) ELSE r
  IN IF r = <<>> THEN Num(0)
     ELSE IF d # <<>> /\ \A i \in 1..Len(d) : IsDigit(d[i])
          THEN Num(IF neg THEN 0 - ParseDigits(d, 0) ELSE ParseDigits(d, 0))
          ELSE NaN

(***************************************************************************)
(* The Service schema (models/Service.js).                                 *)
(***************************************************************************)
Digital == <<"D", "i", "g", "i", "t", "a", "l">>
Social == <<"S", "o", "c", "i", "a", "l">>
Contenido == <<"C", "o", "n", "t", "e", "n", "i", "d", "o">>
\* "Dise\~no" and "An\'alisis": the accented letters are written "n~" and "a'"
Diseno == <<"D", "i", "s", "e", "n~", "o">>
Desarrollo == <<"D", "e", "s", "a", "r", "r", "o", "l", "l", "o">>
Analisis == <<"A", "n", "a'", "l", "i", "s", "i", "s">>
Activo == <<"A", "c", "t", "i", "v", "o">>
Nuevo == <<"N", "u", "e", "v", "o">>
Pausado == <<"P", "a", "u", "s", "a", "d", "o">>
Inactivo == <<"I", "n", "a", "c", "t", "i", "v", "o">>

Paths == {"name", "category", "price", "duration", "status", "description", "clients"}
StringPaths == {"name", "category", "duration", "status", "description"}
NumberPaths == {"price", "clients"}

\* trim: true
TrimPaths == {"name", "description"}
\* required: [true, ...]
RequiredPaths == {"name", "category", "price", "duration", "status", "description"}
\* enum: { values: [...] }
EnumValues(p) ==
  CASE p = "category" -> {Digital, Social, Contenido, Diseno, Desarrollo, Analisis}
    [] p = "status" -> {Activo, Nuevo, Pausado, Inactivo}
    [] OTHER -> {}
EnumPaths == {"category", "status"}
\* maxlength: [k, ...]
MaxNameLength == 100
MaxDurationLength == 50
MaxDescriptionLength == 500
MaxLengthPaths == {"name", "duration", "description"}
MaxLength(p) ==
  CASE p = "name" -> MaxNameLength
    [] p = "duration" -> MaxDurationLength
    [] OTHER -> MaxDescriptionLength
\* min: [0, ...]
MinPrice == 0
MinClients == 0
MinPaths == {"price", "clients"}
Min(p) == IF p = "price" THEN MinPrice ELSE MinClients
\* default: ...
DefaultClients == 0
Default(p) == IF p = "status" THEN Str(Nuevo) ELSE Num(DefaultClients)

\* SchemaString.cast: null and undefined pass, the rest becomes its String()
CastString(v) ==
  CASE IsNullish(v) -> v
    [] v.t = "string" -> v
    [] v.t = "number" -> Str(DecStr(v.n))
    [] v.t = "boolean" -> Str(IF v.n = 1 THEN <<"t", "r", "u", "e">>
                                          ELSE <<"f", "a", "l", "s", "e">>)
    [] OTHER -> Str(<<"N", "a", "N">>)

\* mongoose's castNumber: null and undefined pass, "" is null, strings and
\* booleans go through Number(), NaN is a CastError (ok = FALSE)
CastNumber(v) ==
  CASE IsNullish(v) -> [ok |-> TRUE, v |-> v]
    [] v.t = "string" /\ v.s = <<>> -> [ok |-> TRUE, v |-> Null]
    [] v.t = "string" ->
         LET k == ToNumber(v.s) IN [ok |-> k.t = "number", v |-> k]
    [] v.t = "boolean" -> [ok |-> TRUE, v |-> Num(v.n)]
    [] v.t = "number" -> [ok |-> TRUE, v |-> v]
    [] OTHER -> [ok |-> FALSE, v |-> v]

\* the setters and the cast of one path: the value the document gets
CastPath(p, v) ==
  IF p \in NumberPaths THEN CastNumber(v)
  ELSE LET c == CastString(v)
       IN [ok |-> TRUE,
           v |-> IF p \in TrimPaths /\ Truthy(c) THEN Str(Trim(c.s)) ELSE c]

\* doc[p] = obj[p] for the paths ps of obj: each value goes through its
\* path's setters and cast; a failed cast leaves the value and marks the path
\* invalid, a value that differs from the document's marks it modified
SetPaths(doc, obj, ps) ==
  LET c == [p \in ps |-> CastPath(p, obj[p])]
      set == {p \in ps : c[p].ok /\ c[p].v # doc[p]}
      val == [p \in Paths |-> IF p \in set THEN c[p].v ELSE doc[p]]
  IN [doc EXCEPT !.name = val["name"], !.category = val["category"],
                 !.price = val["price"], !.duration = val["duration"],
                 !.status = val["status"], !.description = val["description"],
                 !.clients = val["clients"],
                 !.invalid = @ \cup {p \in ps : ~c[p].ok},
                 !.modified = @ \cup set]

EmptyDoc ==
  [id |-> 0, createdAt |-> 0, updatedAt |-> 0, isNew |-> TRUE,
   invalid |-> {}, modified |-> {},
   name |-> Undef, category |-> Undef, price |-> Undef, duration |-> Undef,
   status |-> Undef, description |-> Undef, clients |-> Undef]

\* new Service(obj): the defined paths of obj are set, the others get the
\* schema's default
NewService(obj) ==
  LET given == {p \in Paths : obj[p] # Undef}
      d == [EmptyDoc EXCEPT
              !.status = IF "status" \in given THEN Undef ELSE Default("status"),
              !.clients = IF "clients" \in given THEN Undef ELSE Default("clients")]
  IN SetPaths(d, obj, given)

\* mutant: a required value is one that is truthy, so the number 0 is missing
CheckRequired_Truthy(p, v) == Truthy(v)

\* the required validator of a path's type
CheckRequired(p, v) ==
  IF p \in NumberPaths THEN v.t = "number" ELSE v.t = "string" /\ v.s # <<>>

\* the first validator of path p that the value fails, "" when none does
PathError(doc, p) ==
  LET v == doc[p]
  IN CASE p \in doc.invalid -> "cast"
       [] p \in RequiredPaths /\ ~CheckRequired(p, v) -> "required"
       [] p \in EnumPaths /\ v # Undef /\ ~(v.t = "string" /\ v.s \in EnumValues(p)) -> "enum"
       [] p \in MaxLengthPaths /\ ~IsNullish(v) /\ Len(v.s) > MaxLength(p) -> "maxlength"
       [] p \in MinPaths /\ ~IsNullish(v) /\ v.n < Min(p) -> "min"
       [] OTHER -> ""

\* the paths doc.validate() looks at: all paths of a new document; of a
\* document read from the store the paths that were assigned a new value or
\* failed their cast
PathsToValidate(doc) ==
  IF doc.isNew THEN Paths ELSE doc.modified \cup doc.invalid

\* doc.validate(): the ValidationError's errors, one per failing path
ValidationErrors(doc) ==
  {[path |-> p, kind |-> PathError(doc, p)] :
     p \in {q \in PathsToValidate(doc) : PathError(doc, q) # ""}}

\* mutant: the hook leaves the name as it is
Capitalize_Skipped(doc) == doc

\* serviceSchema.pre('save'): capitalise the first letter of the name
Capitalize(doc) ==
  IF Truthy(doc.name)
  THEN [doc EXCEPT !.name = Str(ToUpperCase(Head(doc.name.s)) \o Tail(doc.name.s))]
  ELSE doc

\* the timestamps plugin: createdAt on a new document, updatedAt on a new or
\* a modified one
Timestamps(doc, clock) ==
  IF doc.isNew THEN [doc EXCEPT !.createdAt = clock, !.updatedAt = clock]
  ELSE IF doc.modified # {} THEN [doc EXCEPT !.updatedAt = clock]
  ELSE doc

\* what the store keeps of a saved document, and what a query returns
Stored(doc) == [doc EXCEPT !.isNew = FALSE, !.invalid = {}, !.modified = {}]

\* doc.save() up to the write: validation first, then the timestamps and the
\* pre('save') hook; ok = FALSE is a ValidationError with its errors
Save(doc, clock) ==
  LET errs == ValidationErrors(doc)
  IN IF errs # {} THEN [ok |-> FALSE, errors |-> errs, doc |-> doc]
     ELSE [ok |-> TRUE, errors |-> {}, doc |-> Stored(Capitalize(Timestamps(doc, clock)))]

\* doc.save() of the inline application's model (part_000, lines 394-445):
\* the same schema without the pre('save') hook
InlineSave(doc, clock) ==
  LET errs == ValidationErrors(doc)
  IN IF errs # {} THEN [ok |-> FALSE, errors |-> errs, doc |-> doc]
     ELSE [ok |-> TRUE, errors |-> {}, doc |-> Stored(Timestamps(doc, clock))]

(***************************************************************************)
(* The state: the collection, the clock, and the last request with its     *)
(* response.                                                               *)
(***************************************************************************)
VARIABLES
  store,      \* the services collection: id -> stored document
  nextId,     \* the next identifier the store hands out
  now,        \* Date.now()
  req,        \* the last request
  resp,       \* the response sent to it
  deleted,    \* history: the ids deleteService answered 200 for
  payload,    \* the body under test of SpecCreate and SpecUpdate
  env,        \* process.env.NODE_ENV
  storeError, \* error.message of the error a failing store call rejects with
  client,     \* the frontend: the form's check of its payload
  tasks,      \* the tasks collection: id -> stored task
  app,        \* the process of an entry point and its store connection
  reqs,       \* the requests the entry point is working on
  pending,    \* the handlers that are between two of their store round trips
  view        \* the frontend: the state of the Products component

\* the state outside the service controller and its store
others == <<client, tasks, app, reqs, pending, view>>

vars == <<store, nextId, now, req, resp, deleted, payload, env, storeError, others>>

\* the number of requests an entry point works on at a time
MaxRequests == 2

\* the module of an entry point is loaded: the start-up mongoose.connect call
\* is pending; the inline connectMongoDB throws before the call when
\* MONGODB_URI is not set
LoadedApp(entry, uri) ==
  [entry |-> entry, uri |-> uri, isConnected |-> FALSE, ready |-> FALSE,
   exited |-> FALSE,
   startup |-> IF entry = "inline" /\ ~uri THEN "failed" ELSE "pending",
   calls |-> IF entry = "inline" /\ ~uri THEN {} ELSE {0}]

\* a request number that is free
IdleRequest == [path |-> <<>>, pc |-> "idle", status |-> 0, ran |-> FALSE]

\* the frontend before the form has checked a payload, no task, the server
\* entry point just loaded
InitOthers ==
  /\ client = [checked |-> FALSE, isValid |-> FALSE, errors |-> <<>>, threw |-> FALSE]
  /\ tasks = <<>>
  /\ app = LoadedApp("server", TRUE)
  /\ reqs = [r \in 1..MaxRequests |-> IdleRequest]
  /\ pending = [pc |-> "idle", start |-> <<>>, seen |-> <<>>,
               updates |-> [r \in 1..MaxRequests |-> [pc |-> "idle"]]]
  /\ view = [loading |-> TRUE, loads |-> 1, error |-> FALSE, services |-> <<>>,
             searchTerm |-> <<>>, categoryFilter |-> <<"a", "l", "l">>]

\* req.body: the seven fields the handlers read and an id field they do not;
\* absent: req.body itself is undefined
EmptyBody ==
  [name |-> Undef, category |-> Undef, price |-> Undef, duration |-> Undef,
   status |-> Undef, description |-> Undef, clients |-> Undef,
   id |-> Undef, absent |-> FALSE]

\* fail: the store round trip of the request that fails, 0 when none does
Request(op, id, body, category) ==
  [op |-> op, id |-> id, body |-> body, category |-> category, fail |-> 0]

\* res.status(status).json(...): the fields a handler does not send stay empty;
\* queries counts the round trips to the store the request made
Response ==
  [status |-> 0, message |-> "", errors |-> {}, service |-> <<>>,
   services |-> <<>>, deletedService |-> <<>>, stats |-> <<>>, category |-> <<>>,
   count |-> 0, queries |-> 0, error |-> Undef, sent |-> 0, escaped |-> FALSE]

\* error.message of the TypeError a property read of undefined throws
TypeErrorText == <<"T", "E">>

\* the texts a store error may carry
ErrorTexts == {<<"E", "1">>, <<"E", "2">>}

\* the values of NODE_ENV: unset, 'production', 'development'
Environments == {"", "production", "development"}

\* a response the handler sends
Sent == [Response EXCEPT !.sent = 1]

\* mutant: error: error.message in every environment
ServerError_Detailed(message, queries, text) ==
  [Sent EXCEPT !.status = 500, !.message = message, !.queries = queries,
               !.error = Str(text)]

\* res.status(500).json({ message, error }): the error's text is included in
\* the development environment only
ServerError(message, queries, text) ==
  [Sent EXCEPT !.status = 500, !.message = message, !.queries = queries,
               !.error = IF env = "development" THEN Str(text) ELSE Undef]

\* mutant: every identifier casts
Castable_Any(id) == TRUE

\* an identifier is a natural number; 0 stands for one that does not cast to
\* an ObjectId ("not-an-id")
Castable(id) == id >= 1

\* mutant: sort({ createdAt: 1 })
SortedByCreatedAtAsc(ds) ==
  {q \in [1..Cardinality(ds) -> ds] :
     /\ \A i, j \in 1..Cardinality(ds) : i # j => q[i] # q[j]
     /\ \A i, j \in 1..Cardinality(ds) : i < j => q[i].createdAt <= q[j].createdAt}

\* all orders of the documents ds that sort({ createdAt: -1 }) may return: the
\* order of documents with equal createdAt is the store's choice
SortedByCreatedAtDesc(ds) ==
  {q \in [1..Cardinality(ds) -> ds] :
     /\ \A i, j \in 1..Cardinality(ds) : i # j => q[i] # q[j]
     /\ \A i, j \in 1..Cardinality(ds) : i < j => q[i].createdAt >= q[j].createdAt}

Documents(st) == {st[i] : i \in DOMAIN st}

(***************************************************************************)
(* The handlers (controllers/serviceController.js).  fail names the store   *)
(* round trip of the request that rejects with an error that is neither a  *)
(* ValidationError nor a CastError; 0: none does.                          *)
(***************************************************************************)
GetAllServices(fail) ==
  /\ req' = [Request("getAllServices", 0, EmptyBody, <<>>) EXCEPT !.fail = fail]
  /\ IF fail = 1
     THEN resp' = ServerError("Error interno del servidor al obtener servicios", 1, storeError)
     ELSE \E q \in SortedByCreatedAtDesc(Documents(store)) :
            resp' = [Sent EXCEPT !.status = 200, !.services = q, !.queries = 1]
  /\ UNCHANGED <<store, nextId, now, deleted, payload, env, storeError, others>>

CreateService(body, fail) ==
  LET service == [NewService([name |-> body.name,
                              category |-> body.category,
                              price |-> body.price,
                              duration |-> body.duration,
                              status |-> Or(body.status, Str(Nuevo)),
                              description |-> body.description,
                              clients |-> Or(body.clients, Num(0))])
                    EXCEPT !.id = nextId]
      r == Save(service, now)
  IN /\ r.ok /\ fail = 0 => nextId <= MaxIds
     /\ req' = [Request("createService", 0, body, <<>>) EXCEPT !.fail = fail]
     /\ IF body.absent
        \* req.body.name of an undefined req.body throws at line 70, before the
        \* try block: the handler sends nothing, the rejection goes to the
        \* framework, whose error handler answers 500
        THEN /\ resp' = [Response EXCEPT !.status = 500, !.escaped = TRUE]
             /\ UNCHANGED <<store, nextId>>
        ELSE IF ~r.ok
        THEN /\ resp' = [Sent EXCEPT !.status = 400, !.errors = r.errors,
                           !.message = "Error de validacion"]
             /\ UNCHANGED <<store, nextId>>
        ELSE IF fail # 0
        THEN /\ resp' = ServerError("Error interno del servidor al crear servicio", 1, storeError)
             /\ UNCHANGED <<store, nextId>>
        ELSE /\ store' = (nextId :> r.doc) @@ store
             /\ nextId' = nextId + 1
             /\ resp' = [Sent EXCEPT !.status = 201, !.service = <<r.doc>>,
                           !.queries = 1, !.message = "Servicio creado exitosamente"]
     /\ UNCHANGED <<now, deleted, payload, env, storeError, others>>

GetServiceById(id, fail) ==
  /\ req' = [Request("getServiceById", id, EmptyBody, <<>>) EXCEPT !.fail = fail]
  /\ resp' =
       IF ~Castable(id)
       THEN [Sent EXCEPT !.status = 400, !.message = "ID de servicio invalido"]
       ELSE IF fail = 1
       THEN ServerError("Error interno del servidor", 1, storeError)
       ELSE IF id \in DOMAIN store
       THEN [Sent EXCEPT !.status = 200, !.service = <<store[id]>>, !.queries = 1]
       ELSE [Sent EXCEPT !.status = 404, !.queries = 1,
               !.message = "Servicio no encontrado"]
  /\ UNCHANGED <<store, nextId, now, deleted, payload, env, storeError, others>>

\* mutant: a status the body leaves out is reset to the default, as on create
Overlay_Defaulting(service, body) ==
  SetPaths(service,
           [name |-> Or(body.name, service.name),
            category |-> Or(body.category, service.category),
            price |-> IF body.price # Undef THEN body.price ELSE service.price,
            duration |-> Or(body.duration, service.duration),
            status |-> Or(body.status, Str(Nuevo)),
            description |-> Or(body.description, service.description),
            clients |-> IF body.clients # Undef THEN body.clients ELSE service.clients],
           Paths)

\* mutant: price and clients fall back with || like the other five fields
Overlay_AllFalsy(service, body) ==
  SetPaths(service,
           [p \in Paths |-> Or(body[p], service[p])],
           Paths)

\* mutant: the body is assigned as a whole, an id in it included
Overlay_WithId(service, body) ==
  [SetPaths(service,
            [name |-> Or(body.name, service.name),
             category |-> Or(body.category, service.category),
             price |-> IF body.price # Undef THEN body.price ELSE service.price,
             duration |-> Or(body.duration, service.duration),
             status |-> Or(body.status, service.status),
             description |-> Or(body.description, service.description),
             clients |-> IF body.clients # Undef THEN body.clients ELSE service.clients],
            Paths)
     EXCEPT !.id = IF body.id # Undef THEN body.id.n ELSE @]

\* the seven assignments of updateService (lines 164-170)
Overlay(service, body) ==
  SetPaths(service,
           [name |-> Or(body.name, service.name),
            category |-> Or(body.category, service.category),
            price |-> IF body.price # Undef THEN body.price ELSE service.price,
            duration |-> Or(body.duration, service.duration),
            status |-> Or(body.status, service.status),
            description |-> Or(body.description, service.description),
            clients |-> IF body.clients # Undef THEN body.clients ELSE service.clients],
           Paths)

\* mutant: the overlaid record is written first and validated afterwards
UpdateService_WriteFirst(id, body, fail) ==
  /\ req' = [Request("updateService", id, body, <<>>) EXCEPT !.fail = fail]
  /\ IF Castable(id) /\ id \in DOMAIN store
     THEN /\ store' = [store EXCEPT ![id] = Stored(Overlay(store[id], body))]
          /\ resp' = IF Save(Overlay(store[id], body), now).ok
                     THEN [Sent EXCEPT !.status = 200, !.service = <<store'[id]>>,
                             !.queries = 1]
                     ELSE [Sent EXCEPT !.status = 400, !.queries = 1,
                             !.errors = Save(Overlay(store[id], body), now).errors]
     ELSE /\ resp' = [Sent EXCEPT !.status = IF Castable(id) THEN 404 ELSE 400]
          /\ UNCHANGED store
  /\ UNCHANGED <<nextId, now, deleted, payload, env, storeError, others>>

UpdateService(id, body, fail) ==
  /\ req' = [Request("updateService", id, body, <<>>) EXCEPT !.fail = fail]
  /\ IF ~Castable(id)
     THEN /\ resp' = [Sent EXCEPT !.status = 400, !.message = "ID de servicio invalido"]
          /\ UNCHANGED store
     ELSE IF fail = 1
     THEN /\ resp' = ServerError("Error interno del servidor al actualizar", 1, storeError)
          /\ UNCHANGED store
     ELSE IF id \notin DOMAIN store
     THEN /\ resp' = [Sent EXCEPT !.status = 404, !.queries = 1,
                        !.message = "Servicio no encontrado para actualizar"]
          /\ UNCHANGED store
     ELSE IF body.absent
     \* req.body.name of an undefined req.body throws at line 164, inside the try
     THEN /\ resp' = ServerError("Error interno del servidor al actualizar", 1, TypeErrorText)
          /\ UNCHANGED store
     ELSE LET service == Overlay(store[id], body)
              r == Save(service, now)
              \* save() of an unmodified document sends nothing to the store
              writes == IF service.modified # {} THEN 1 ELSE 0
          IN IF ~r.ok
             THEN /\ resp' = [Sent EXCEPT !.status = 400, !.errors = r.errors,
                                !.queries = 1,
                                !.message = "Error de validacion en actualizacion"]
                  /\ UNCHANGED store
             ELSE IF fail = 2 /\ writes = 1
             THEN /\ resp' = ServerError("Error interno del servidor al actualizar", 2, storeError)
                  /\ UNCHANGED store
             ELSE /\ store' = [store EXCEPT ![id] = r.doc]
                  /\ resp' = [Sent EXCEPT !.status = 200, !.service = <<r.doc>>,
                                !.queries = 1 + writes,
                                !.message = "Servicio actualizado exitosamente"]
  /\ UNCHANGED <<nextId, now, deleted, payload, env, storeError, others>>

\* mutant: deleteMany({}) - the whole collection goes
DeleteOne_All(st, id) == <<>>

\* mutant: deleteOne removes nothing
DeleteOne_Keep(st, id) == st

\* service.deleteOne(): the collection without the document
DeleteOne(st, id) == [i \in DOMAIN st \ {id} |-> st[i]]

DeleteService(id, fail) ==
  /\ req' = [Request("deleteService", id, EmptyBody, <<>>) EXCEPT !.fail = fail]
  /\ IF ~Castable(id)
     THEN /\ resp' = [Sent EXCEPT !.status = 400, !.message = "ID de servicio invalido"]
          /\ UNCHANGED <<store, deleted>>
     ELSE IF fail = 1
     THEN /\ resp' = ServerError("Error interno del servidor al eliminar", 1, storeError)
          /\ UNCHANGED <<store, deleted>>
     ELSE IF id \notin DOMAIN store
     THEN /\ resp' = [Sent EXCEPT !.status = 404, !.queries = 1,
                        !.message = "Servicio no encontrado para eliminar"]
          /\ UNCHANGED <<store, deleted>>
     ELSE IF fail = 2
     THEN /\ resp' = ServerError("Error interno del servidor al eliminar", 2, storeError)
          /\ UNCHANGED <<store, deleted>>
     ELSE /\ store' = DeleteOne(store, id)
          /\ deleted' = deleted \cup {id}
          /\ resp' = [Sent EXCEPT !.status = 200, !.queries = 2,
                        !.deletedService = <<[id |-> store[id].id, name |-> store[id].name]>>,
                        !.message = "Servicio eliminado correctamente"]
  /\ UNCHANGED <<nextId, now, payload, env, storeError, others>>

\* mutant: the category is accepted in lower case too
ValidCategories_CaseBlind ==
  {Digital, Social, Contenido, Diseno, Desarrollo, Analisis,
   <<"d", "i", "g", "i", "t", "a", "l">>}

\* validCategories (line 268)
ValidCategories == {Digital, Social, Contenido, Diseno, Desarrollo, Analisis}

GetServicesByCategory(category, fail) ==
  /\ req' = [Request("getServicesByCategory", 0, EmptyBody, category) EXCEPT !.fail = fail]
  /\ IF category \notin ValidCategories
     THEN resp' = [Sent EXCEPT !.status = 400, !.message = "Categoria invalida",
                     !.category = category]
     ELSE IF fail = 1
     THEN resp' = ServerError("Error interno del servidor", 1, storeError)
     ELSE \E q \in SortedByCreatedAtDesc({d \in Documents(store) : d.category = Str(category)}) :
            resp' = [Sent EXCEPT !.status = 200, !.category = category,
                       !.count = Len(q), !.services = q, !.queries = 1]
  /\ UNCHANGED <<store, nextId, now, deleted, payload, env, storeError, others>>

(***************************************************************************)
(* The handlers of the inline serverless application (part_000, lines      *)
(* 513-665), which declares its own Service model.  getAllServices and     *)
(* getServiceById are the code of the controller's.                        *)
(***************************************************************************)
InlineCreateService(body, fail) ==
  LET service == [NewService([name |-> body.name,
                              category |-> body.category,
                              price |-> body.price,
                              duration |-> body.duration,
                              status |-> Or(body.status, Str(Nuevo)),
                              description |-> body.description,
                              clients |-> Or(body.clients, Num(0))])
                    EXCEPT !.id = nextId]
      r == InlineSave(service, now)
  IN /\ r.ok /\ fail = 0 => nextId <= MaxIds
     /\ req' = [Request("createService", 0, body, <<>>) EXCEPT !.fail = fail]
     /\ IF body.absent
        \* req.body.name of an undefined req.body throws at line 528, before the
        \* try block: the handler sends nothing, the rejection goes to the
        \* framework, whose error handler answers 500
        THEN /\ resp' = [Response EXCEPT !.status = 500, !.escaped = TRUE]
             /\ UNCHANGED <<store, nextId>>
        ELSE IF ~r.ok
        THEN /\ resp' = [Sent EXCEPT !.status = 400, !.errors = r.errors,
                           !.message = "Error de validacion"]
             /\ UNCHANGED <<store, nextId>>
        ELSE IF fail # 0
        THEN /\ resp' = ServerError("Error interno del servidor al crear servicio", 1, storeError)
             /\ UNCHANGED <<store, nextId>>
        ELSE /\ store' = (nextId :> r.doc) @@ store
             /\ nextId' = nextId + 1
             /\ resp' = [Sent EXCEPT !.status = 201, !.service = <<r.doc>>,
                           !.queries = 1, !.message = "Servicio creado exitosamente"]
     /\ UNCHANGED <<now, deleted, payload, env, storeError, others>>


InlineUpdateService(id, body, fail) ==
  /\ req' = [Request("updateService", id, body, <<>>) EXCEPT !.fail = fail]
  /\ IF ~Castable(id)
     THEN /\ resp' = [Sent EXCEPT !.status = 400, !.message = "ID de servicio invalido"]
          /\ UNCHANGED store
     ELSE IF fail = 1
     THEN /\ resp' = ServerError("Error interno del servidor al actualizar", 1, storeError)
          /\ UNCHANGED store
     ELSE IF id \notin DOMAIN store
     THEN /\ resp' = [Sent EXCEPT !.status = 404, !.queries = 1,
                        !.message = "Servicio no encontrado para actualizar"]
          /\ UNCHANGED store
     ELSE IF body.absent
     \* req.body.name of an undefined req.body throws at line 589, inside the try
     THEN /\ resp' = ServerError("Error interno del servidor al actualizar", 1, TypeErrorText)
          /\ UNCHANGED store
     ELSE LET service == Overlay(store[id], body)
              r == InlineSave(service, now)
              \* save() of an unmodified document sends nothing to the store
              writes == IF service.modified # {} THEN 1 ELSE 0
          IN IF ~r.ok
             THEN /\ resp' = [Sent EXCEPT !.status = 400, !.errors = r.errors,
                                !.queries = 1,
                                !.message = "Error de validacion en actualizacion"]
                  /\ UNCHANGED store
             ELSE IF fail = 2 /\ writes = 1
             THEN /\ resp' = ServerError("Error interno del servidor al actualizar", 2, storeError)
                  /\ UNCHANGED store
             ELSE /\ store' = [store EXCEPT ![id] = r.doc]
                  /\ resp' = [Sent EXCEPT !.status = 200, !.service = <<r.doc>>,
                                !.queries = 1 + writes,
                                !.message = "Servicio actualizado exitosamente"]
  /\ UNCHANGED <<nextId, now, deleted, payload, env, storeError, others>>

\* findById, then Service.findByIdAndDelete; the confirmation carries the document
InlineDeleteService(id, fail) ==
  /\ req' = [Request("deleteService", id, EmptyBody, <<>>) EXCEPT !.fail = fail]
  /\ IF ~Castable(id)
     THEN /\ resp' = [Sent EXCEPT !.status = 400, !.message = "ID de servicio invalido"]
          /\ UNCHANGED <<store, deleted>>
     ELSE IF fail = 1
     THEN /\ resp' = ServerError("Error interno del servidor al eliminar", 1, storeError)
          /\ UNCHANGED <<store, deleted>>
     ELSE IF id \notin DOMAIN store
     THEN /\ resp' = [Sent EXCEPT !.status = 404, !.queries = 1,
                        !.message = "Servicio no encontrado para eliminar"]
          /\ UNCHANGED <<store, deleted>>
     ELSE IF fail = 2
     THEN /\ resp' = ServerError("Error interno del servidor al eliminar", 2, storeError)
          /\ UNCHANGED <<store, deleted>>
     ELSE /\ store' = DeleteOne(store, id)
          /\ deleted' = deleted \cup {id}
          /\ resp' = [Sent EXCEPT !.status = 200, !.queries = 2,
                        !.deletedService = <<store[id]>>,
                        !.message = "Servicio eliminado exitosamente"]
  /\ UNCHANGED <<nextId, now, payload, env, storeError, others>>

(***************************************************************************)
(* The queries of getServiceStats.                                         *)
(***************************************************************************)
RECURSIVE SumOver(_, _)
SumOver(st, ids) ==
  IF ids = {} THEN 0
  ELSE LET i == CHOOSE x \in ids : TRUE
       IN st[i] + SumOver(st, ids \ {i})

\* mutant: the filter is ignored
CountDocuments_Unfiltered(st, filter) == Cardinality(DOMAIN st)

\* Service.countDocuments(filter): filter is <<>> or <<status>>
CountDocuments(st, filter) ==
  Cardinality({i \in DOMAIN st : filter = <<>> \/ st[i].status = Str(filter[1])})

\* mutant: { $sum: 1 } counts the documents
AggregateClients_Count(st) ==
  IF DOMAIN st = {} THEN <<>> ELSE <<[total |-> Num(Cardinality(DOMAIN st))]>>

\* $group { _id: null, total: { $sum: '$clients' } }: no group for an empty
\* collection; $sum skips the values that are not numbers
AggregateClients(st) ==
  IF DOMAIN st = {} THEN <<>>
  ELSE <<[total |-> Num(SumOver([i \in DOMAIN st |->
                                    IF IsNum(st[i].clients) THEN st[i].clients.n ELSE 0],
                                 DOMAIN st))]>>

\* Service.distinct('category')
Distinct(st) == {st[i].category : i \in DOMAIN st}

\* a number that is the quotient n / d
Ratio(n, d) == [t |-> "number", n |-> n, s |-> <<>>, d |-> d]

\* $group { _id: null, averagePrice: $avg, minPrice: $min, maxPrice: $max }
\* over '$price'; $avg, $min and $max skip the values that are not numbers and
\* are null when there is none
AggregatePrices(st) ==
  LET ps == {i \in DOMAIN st : IsNum(st[i].price)}
      val == [i \in ps |-> st[i].price.n]
  IN IF DOMAIN st = {} THEN <<>>
     ELSE IF ps = {} THEN <<[averagePrice |-> Null, minPrice |-> Null, maxPrice |-> Null]>>
     ELSE <<[averagePrice |-> Ratio(SumOver(val, ps), Cardinality(ps)),
             minPrice |-> Num(CHOOSE m \in {val[i] : i \in ps} : \A i \in ps : m <= val[i]),
             maxPrice |-> Num(CHOOSE m \in {val[i] : i \in ps} : \A i \in ps : m >= val[i])]>>

\* Math.round: to the nearest integer, halves upwards
MathRound(v) ==
  CASE v.t = "number" ->
         LET d == IF "d" \in DOMAIN v THEN v.d ELSE 1
         IN Num((2 * v.n + d) \div (2 * d))
    [] v.t = "null" -> Num(0)
    [] v.t = "boolean" -> Num(v.n)
    [] v.t = "string" -> ToNumber(v.s)
    [] OTHER -> NaN

\* result[0]?.field
First(result, field) == IF result = <<>> THEN Undef ELSE result[1][field]

\* the snapshot built from the eight results (lines 349-370)
StatsOf(st, clock) ==
  LET totalClientsResult == AggregateClients(st)
      categories == Distinct(st)
      averagePriceResult == AggregatePrices(st)
  IN [overview |-> [totalServices |-> CountDocuments(st, <<>>),
                    activeServices |-> CountDocuments(st, <<Activo>>),
                    newServices |-> CountDocuments(st, <<Nuevo>>),
                    pausedServices |-> CountDocuments(st, <<Pausado>>),
                    inactiveServices |-> CountDocuments(st, <<Inactivo>>)],
      clients |-> [totalClients |-> Or(First(totalClientsResult, "total"), Num(0))],
      categories |-> [totalCategories |-> Cardinality(categories),
                      availableCategories |-> categories],
      pricing |-> [averagePrice |->
                     MathRound(Or(First(averagePriceResult, "averagePrice"), Num(0))),
                   minPrice |-> Or(First(averagePriceResult, "minPrice"), Num(0)),
                   maxPrice |-> Or(First(averagePriceResult, "maxPrice"), Num(0))],
      lastUpdated |-> clock]

\* the eight queries of Promise.all
StatsQueries == 8

\* mutant: Promise.allSettled - the snapshot is sent whatever the queries did
GetServiceStats_Settled(fail) ==
  /\ req' = [Request("getServiceStats", 0, EmptyBody, <<>>) EXCEPT !.fail = fail]
  /\ resp' = [Sent EXCEPT !.status = 200, !.queries = StatsQueries,
                 !.stats = <<StatsOf(store, now)>>]
  /\ UNCHANGED <<store, nextId, now, deleted, payload, env, storeError, others>>

GetServiceStats(fail) ==
  /\ req' = [Request("getServiceStats", 0, EmptyBody, <<>>) EXCEPT !.fail = fail]
  /\ resp' =
       IF fail # 0
       THEN ServerError("Error interno del servidor al obtener estadisticas", StatsQueries, storeError)
       ELSE [Sent EXCEPT !.status = 200, !.queries = StatsQueries,
               !.stats = <<StatsOf(store, now)>>]
  /\ UNCHANGED <<store, nextId, now, deleted, payload, env, storeError, others>>

\* time passes
Tick ==
  /\ now < MaxClock
  /\ now' = now + 1
  /\ UNCHANGED <<store, nextId, req, resp, deleted, payload, env, storeError, others>>

(***************************************************************************)
(* The requests of the model.                                              *)
(***************************************************************************)
Body(n, c, p, d, s, de, cl) ==
  [name |-> n, category |-> c, price |-> p, duration |-> d, status |-> s,
   description |-> de, clients |-> cl, id |-> Undef, absent |-> FALSE]

\* the identifiers of requests: 0 does not cast, the others are well formed
IdInputs == 0..MaxIds

\* create bodies of the main specification: two valid ones and one with a
\* status outside the enumeration
ValidBody1 ==
  Body(Str(<<" ", "a", "b", " ">>), Str(Digital), Num(5), Str(<<"1", "w">>), Undef,
       Str(<<" ", "d", " ">>), Undef)
ValidBody2 ==
  Body(Str(<<"C", "d">>), Str(Social), Num(0), Str(<<"2", "w">>), Str(Activo),
       Str(<<"e">>), Num(3))
\* a name of 100 characters that starts with the sharp s
ValidBody3 ==
  [ValidBody2 EXCEPT !.name = Str(<<"sz">> \o Rep("a", MaxNameLength - 1))]
ServiceInputs ==
  {ValidBody1, ValidBody2, ValidBody3, [ValidBody2 EXCEPT !.status = Str(<<"X">>)]}

\* update bodies of the main specification
UpdateInputs ==
  {[EmptyBody EXCEPT !.status = Str(Pausado), !.clients = Num(4), !.id = Num(2)],
   [EmptyBody EXCEPT !.status = Str(Inactivo), !.clients = Null],
   [EmptyBody EXCEPT !.price = Num(-1)]}

CategoryInputs == {Digital, Social, <<"d", "i", "g", "i", "t", "a", "l">>}

(***************************************************************************)
(* The main specification: any sequence of requests, the store reachable.  *)
(***************************************************************************)
Init ==
  /\ store = <<>>
  /\ nextId = 1
  /\ now = 0
  /\ req = Request("none", 0, EmptyBody, <<>>)
  /\ resp = Response
  /\ deleted = {}
  /\ env = "production"
  /\ storeError = <<"E", "1">>
  /\ InitOthers
  /\ payload = EmptyBody

Next ==
  \/ GetAllServices(0)
  \/ \E body \in ServiceInputs : CreateService(body, 0)
  \/ \E id \in IdInputs : GetServiceById(id, 0)
  \/ \E id \in IdInputs, body \in UpdateInputs : UpdateService(id, body, 0)
  \/ \E id \in IdInputs : DeleteService(id, 0)
  \/ \E category \in CategoryInputs : GetServicesByCategory(category, 0)
  \/ GetServiceStats(0)

Spec == Init /\ [][Next]_vars

(***************************************************************************)
(* SpecCreate: one create body, drawn from the product of the field values *)
(* below, is sent to an empty store and read back.                         *)
(***************************************************************************)
InitCreate ==
  /\ store = <<>>
  /\ nextId = 1
  /\ now = 0
  /\ req = Request("none", 0, EmptyBody, <<>>)
  /\ resp = Response
  /\ deleted = {}
  /\ env = "production"
  /\ storeError = <<"E", "1">>
  /\ InitOthers
  /\ \E n \in {Undef, Str(<<" ", " ">>), Str(<<" ", "a", "b", " ">>),
                Str(<<"s", "e", "o", " ", "a", "u", "d", "i", "t">>),
                Str(Rep("a", MaxNameLength)), Str(Rep("a", MaxNameLength + 1))},
        c \in {Undef, Str(Digital), Str(<<"d", "i", "g", "i", "t", "a", "l">>)},
        p \in {Undef, Num(0), Num(5), Num(-1)},
        d \in {Undef, Str(<<" ">>), Str(<<"1", "w">>),
                Str(Rep("d", MaxDurationLength + 1))},
        s \in {Undef, Str(<<>>), Str(Activo), Str(<<"X">>)},
        de \in {Undef, Str(<<" ", "d", " ">>), Str(Rep("e", MaxDescriptionLength + 1))},
        cl \in {Undef, Num(0), Num(3), Num(-1)} :
       payload = Body(n, c, p, d, s, de, cl)

NextCreate ==
  \/ CreateService(payload, 0)
  \/ \E id \in IdInputs : GetServiceById(id, 0)

SpecCreate == InitCreate /\ [][NextCreate]_vars

(***************************************************************************)
(* SpecUpdate: one update body, carrying at most two fields, is sent to a  *)
(* store that holds the record one valid create has left.                  *)
(***************************************************************************)
Falsy == {Null, Str(<<>>), Num(0), False}

UpdateValues(p) ==
  {Undef} \cup Falsy \cup
  CASE p = "name" ->
         {Str(<<" ", "e", "f", " ">>), Str(<<" ", " ">>), Str(Rep("a", MaxNameLength + 1))}
    [] p = "category" -> {Str(Social), Str(<<"X">>)}
    [] p = "price" -> {Num(7), Num(-1), Str(<<"x">>)}
    [] p = "duration" -> {Str(<<"3", "w">>), Str(Rep("d", MaxDurationLength + 1))}
    [] p = "status" -> {Str(Pausado), Str(<<"X">>)}
    [] p = "description" ->
         {Str(<<" ", "g", " ">>), Str(Rep("e", MaxDescriptionLength + 1))}
    [] OTHER -> {Num(4), Num(-1)}

\* the record createService leaves in an empty store at clock 0
Created(body) ==
  Save([NewService([body EXCEPT !.status = Or(body.status, Str(Nuevo)),
                                !.clients = Or(body.clients, Num(0))])
          EXCEPT !.id = 1], 0).doc

InitUpdate ==
  /\ \E body \in {ValidBody1, ValidBody2} : store = (1 :> Created(body))
  /\ nextId = 2
  /\ now = 0
  /\ req = Request("none", 0, EmptyBody, <<>>)
  /\ resp = Response
  /\ deleted = {}
  /\ env = "production"
  /\ storeError = <<"E", "1">>
  /\ InitOthers
  /\ \E p \in Paths, q \in Paths :
       \E v \in UpdateValues(p), w \in UpdateValues(q) :
         payload = [[EmptyBody EXCEPT ![p] = v] EXCEPT ![q] = w]

NextUpdate ==
  \/ \E id \in IdInputs : UpdateService(id, payload, 0)
  \/ \E id \in IdInputs : GetServiceById(id, 0)
  \/ Tick

SpecUpdate == InitUpdate /\ [][NextUpdate]_vars

(***************************************************************************)
(* SpecFault: any sequence of requests to the handlers of the controller,  *)
(* in any environment, where a store call may fail and a request may come  *)
(* without a body.                                                         *)
(***************************************************************************)
\* req.body is undefined
AbsentBody == [EmptyBody EXCEPT !.absent = TRUE]

\* the store round trip of a request that fails: none, the first (find,
\* findById, the insert of create), the second (the write of update and delete)
ReadFaults == 0..1
WriteFaults == 0..2

\* create bodies: a valid one, one with a status outside the enumeration, the
\* empty object and no body at all
FaultServiceInputs ==
  {ValidBody2, [ValidBody2 EXCEPT !.status = Str(<<"X">>)], EmptyBody, AbsentBody}

InitFault ==
  /\ store = <<>>
  /\ nextId = 1
  /\ now = 0
  /\ req = Request("none", 0, EmptyBody, <<>>)
  /\ resp = Response
  /\ deleted = {}
  /\ payload = EmptyBody
  /\ env \in Environments
  /\ storeError \in ErrorTexts
  /\ InitOthers

NextFault ==
  \/ \E fail \in ReadFaults : GetAllServices(fail)
  \/ \E body \in FaultServiceInputs, fail \in ReadFaults :
       CreateService(body, fail)
  \/ \E id \in IdInputs, fail \in ReadFaults : GetServiceById(id, fail)
  \/ \E id \in IdInputs, body \in UpdateInputs \cup {AbsentBody}, fail \in WriteFaults :
       UpdateService(id, body, fail)
  \/ \E id \in IdInputs, fail \in WriteFaults : DeleteService(id, fail)
  \/ \E category \in CategoryInputs, fail \in ReadFaults :
       GetServicesByCategory(category, fail)
  \/ \E fail \in 0..StatsQueries : GetServiceStats(fail)

SpecFault == InitFault /\ [][NextFault]_vars

(***************************************************************************)
(* SpecApps: the requests of the /api/services interface to the routed and *)
(* to the inline application on one collection; the store reachable.       *)
(***************************************************************************)
\* a GET request below /api/services on the inline application, r naming it
\* as the router of the routed application does.  The inline application has
\* two GET routes (lines 668, 670): /api/services is getAllServices, and every
\* path /api/services/<segment>, /api/services/stats included, is
\* getServiceById with the segment as id, and "stats" does not cast to an
\* ObjectId; /api/services/category/<category> has no route, and Express
\* answers 404 itself
InlineGet(r, fail) ==
  /\ req' = [r EXCEPT !.fail = fail]
  /\ IF r.op = "getAllServices"
     THEN IF fail = 1
          THEN resp' = ServerError("Error interno del servidor al obtener servicios", 1,
                                   storeError)
          ELSE \E q \in SortedByCreatedAtDesc(Documents(store)) :
                 resp' = [Sent EXCEPT !.status = 200, !.services = q, !.queries = 1]
     ELSE IF r.op = "getServicesByCategory"
     THEN resp' = [Response EXCEPT !.status = 404]
     ELSE LET id == IF r.op = "getServiceStats" THEN 0 ELSE r.id
          IN resp' =
               IF ~Castable(id)
               THEN [Sent EXCEPT !.status = 400, !.message = "ID de servicio invalido"]
               ELSE IF fail = 1
               THEN ServerError("Error interno del servidor", 1, storeError)
               ELSE IF id \in DOMAIN store
               THEN [Sent EXCEPT !.status = 200, !.service = <<store[id]>>, !.queries = 1]
               ELSE [Sent EXCEPT !.status = 404, !.queries = 1,
                       !.message = "Servicio no encontrado"]
  /\ UNCHANGED <<store, nextId, now, deleted, payload, env, storeError, others>>

\* the GET requests of the model
GetRequests ==
  {Request("getAllServices", 0, EmptyBody, <<>>),
   Request("getServiceStats", 0, EmptyBody, <<>>)}
  \cup {Request("getServiceById", id, EmptyBody, <<>>) : id \in IdInputs}
  \cup {Request("getServicesByCategory", 0, EmptyBody, c) : c \in CategoryInputs}

\* the routed application's answer to the GET request r (serviceRoutes.js)
RoutedGet(r) ==
  \/ r.op = "getAllServices" /\ GetAllServices(0)
  \/ r.op = "getServiceStats" /\ GetServiceStats(0)
  \/ r.op = "getServiceById" /\ GetServiceById(r.id, 0)
  \/ r.op = "getServicesByCategory" /\ GetServicesByCategory(r.category, 0)

NextApps ==
  \/ \E body \in ServiceInputs : CreateService(body, 0)
  \/ \E r \in GetRequests : RoutedGet(r)
  \/ \E r \in GetRequests : InlineGet(r, 0)
  \/ \E id \in IdInputs, body \in UpdateInputs : UpdateService(id, body, 0)
  \/ \E id \in IdInputs : DeleteService(id, 0)
  \/ \E body \in ServiceInputs : InlineCreateService(body, 0)
  \/ \E id \in IdInputs, body \in UpdateInputs : InlineUpdateService(id, body, 0)
  \/ \E id \in IdInputs : InlineDeleteService(id, 0)

SpecApps == Init /\ [][NextApps]_vars

(***************************************************************************)
(* SpecList: records are created and deleted while time passes, and the    *)
(* collection is listed; the store reachable.                              *)
(***************************************************************************)
NextList ==
  \/ \E body \in ServiceInputs : CreateService(body, 0)
  \/ \E id \in IdInputs : DeleteService(id, 0)
  \/ GetAllServices(0)
  \/ Tick

SpecList == Init /\ [][NextList]_vars

(***************************************************************************)
(* The frontend's payload check (services/serviceApi.js).                  *)
(***************************************************************************)
VALID_CATEGORIES == {Digital, Social, Contenido, Diseno, Desarrollo, Analisis}
VALID_STATUSES == {Activo, Nuevo, Pausado, Inactivo}

\* v < 0 in JavaScript: the operand goes through Number(), NaN compares false
LessThanZero(v) ==
  CASE v.t = "number" -> v.n < 0
    [] v.t = "string" -> LET k == ToNumber(v.s) IN k.t = "number" /\ k.n < 0
    [] OTHER -> FALSE

\* !v || v.trim().length === 0
Blank(v) == ~Truthy(v) \/ Trim(v.s) = <<>>

\* v && v.length > max
TooLong(v, max) == Truthy(v) /\ Len(v.s) > max

\* the rules in the order of the source: the condition that pushes the message
Rules(d) ==
  <<[hit |-> Blank(d.name), msg |-> "El nombre del servicio es obligatorio"],
    [hit |-> TooLong(d.name, 100), msg |-> "El nombre no puede exceder 100 caracteres"],
    [hit |-> ~Truthy(d.category) \/ ~(IsStr(d.category) /\ d.category.s \in VALID_CATEGORIES),
     msg |-> "La categoria debe ser una de: ..."],
    [hit |-> ~Truthy(d.price) \/ LessThanZero(d.price),
     msg |-> "El precio debe ser un numero positivo"],
    [hit |-> Blank(d.duration), msg |-> "La duracion es obligatoria"],
    [hit |-> Blank(d.description), msg |-> "La descripcion es obligatoria"],
    [hit |-> TooLong(d.description, 500),
     msg |-> "La descripcion no puede exceder 500 caracteres"],
    [hit |-> Truthy(d.status) /\ ~(IsStr(d.status) /\ d.status.s \in VALID_STATUSES),
     msg |-> "El estado debe ser uno de: ..."],
    [hit |-> Truthy(d.clients) /\ LessThanZero(d.clients),
     msg |-> "El numero de clientes no puede ser negativo"]>>

\* .trim() of a truthy value that is not a string throws a TypeError
TrimThrows(d) ==
  \E p \in {"name", "duration", "description"} : Truthy(d[p]) /\ ~IsStr(d[p])

\* ServiceValidation.validateServiceData(serviceData): { isValid, errors }, or
\* the TypeError it throws
validateServiceData(serviceData) ==
  LET hits == SelectSeq(Rules(serviceData), LAMBDA r : r.hit)
      errors == [i \in 1..Len(hits) |-> hits[i].msg]
  IN IF TrimThrows(serviceData)
     THEN [checked |-> TRUE, isValid |-> FALSE, errors |-> <<>>, threw |-> TRUE]
     ELSE [checked |-> TRUE, isValid |-> Len(errors) = 0, errors |-> errors,
           threw |-> FALSE]

\* validateForm of the service form: the payload is checked, nothing is sent
ValidateForm ==
  /\ client' = validateServiceData(payload)
  /\ UNCHANGED <<store, nextId, now, req, resp, deleted, payload, env, storeError, tasks, app, reqs, pending,
                 view>>

(***************************************************************************)
(* SpecForm: one payload, drawn from the product of the field values       *)
(* below, is checked by the form and posted to an empty store.             *)
(***************************************************************************)
InitForm ==
  /\ store = <<>>
  /\ nextId = 1
  /\ now = 0
  /\ req = Request("none", 0, EmptyBody, <<>>)
  /\ resp = Response
  /\ deleted = {}
  /\ env = "production"
  /\ storeError = <<"E", "1">>
  /\ InitOthers
  /\ \E n \in {Undef, Str(<<" ", " ">>), Str(<<" ", "a", "b", " ">>),
                Str(Rep("a", MaxNameLength)), Str(Rep("a", MaxNameLength + 1)), Num(5)},
        c \in {Undef, Str(Digital), Str(<<"d", "i", "g", "i", "t", "a", "l">>)},
        p \in {Undef, Str(<<>>), Num(0), Num(5), Num(-1)},
        d \in {Undef, Str(<<" ">>), Str(<<"1", "w">>),
                Str(Rep("d", MaxDurationLength + 1))},
        s \in {Undef, Str(Nuevo), Str(<<"X">>)},
        de \in {Undef, Str(<<" ", "d", " ">>), Str(Rep("e", MaxDescriptionLength + 1))},
        cl \in {Undef, Num(0), Num(3), Num(-1)} :
       payload = Body(n, c, p, d, s, de, cl)

NextForm ==
  \/ ValidateForm
  \/ CreateService(payload, 0)

SpecForm == InitForm /\ [][NextForm]_vars

(***************************************************************************)
(* The Task handlers (controllers/taskController.js).  A task body carries *)
(* title, description and completed; the catch blocks send                 *)
(* { message: error.message }, kept in the error field of the response.    *)
(***************************************************************************)
\* the Task schema: title is required; completed is a boolean, and a value
\* that does not cast to one is a CastError on validation
TaskErrors(task) ==
  {p \in {"title"} : ~(IsStr(task.title) /\ task.title.s # <<>>)}
  \cup {p \in {"completed"} : task.completed.t \notin {"boolean", "undefined"}}

\* what a catch block of the task controller answers with the given status
TaskError(status, queries, text) ==
  [Sent EXCEPT !.status = status, !.queries = queries, !.error = Str(text)]

GetAllTasks(fail) ==
  /\ req' = [Request("getAllTasks", 0, EmptyBody, <<>>) EXCEPT !.fail = fail]
  /\ resp' = IF fail = 1 THEN TaskError(500, 1, storeError)
             ELSE [Sent EXCEPT !.status = 200, !.queries = 1,
                               !.services = Documents(tasks)]
  /\ UNCHANGED <<store, nextId, now, deleted, payload, env, storeError, client, tasks, app, reqs, pending,
                 view>>

CreateTask(body, fail) ==
  LET task == [id |-> nextId, title |-> body.title, description |-> body.description,
               completed |-> False, createdAt |-> now, updatedAt |-> now]
  IN /\ TaskErrors(task) = {} /\ fail = 0 => nextId <= MaxIds
     /\ req' = [Request("createTask", 0, body, <<>>) EXCEPT !.fail = fail]
     /\ IF TaskErrors(task) # {}
        THEN /\ resp' = [TaskError(400, 0, <<"V", "E">>) EXCEPT !.errors = TaskErrors(task)]
             /\ UNCHANGED <<tasks, nextId, view>>
        ELSE IF fail = 1
        THEN /\ resp' = TaskError(400, 1, storeError)
             /\ UNCHANGED <<tasks, nextId, view>>
        ELSE /\ tasks' = (nextId :> task) @@ tasks
             /\ nextId' = nextId + 1
             /\ resp' = [Sent EXCEPT !.status = 201, !.queries = 1, !.service = <<task>>]
     /\ UNCHANGED <<store, now, deleted, payload, env, storeError, client, app, reqs, pending,
                 view>>

GetTaskById(id, fail) ==
  /\ req' = [Request("getTaskById", id, EmptyBody, <<>>) EXCEPT !.fail = fail]
  /\ resp' =
       IF ~Castable(id) THEN TaskError(500, 0, <<"C", "E">>)
       ELSE IF fail = 1 THEN TaskError(500, 1, storeError)
       ELSE IF id \in DOMAIN tasks
       THEN [Sent EXCEPT !.status = 200, !.queries = 1, !.service = <<tasks[id]>>]
       ELSE [Sent EXCEPT !.status = 404, !.queries = 1, !.message = "Tarea no encontrada"]
  /\ UNCHANGED <<store, nextId, now, deleted, payload, env, storeError, client, tasks, app, reqs, pending,
                 view>>

UpdateTask(id, body, fail) ==
  /\ req' = [Request("updateTask", id, body, <<>>) EXCEPT !.fail = fail]
  /\ IF ~Castable(id)
     THEN resp' = TaskError(400, 0, <<"C", "E">>) /\ UNCHANGED tasks
     ELSE IF fail = 1
     THEN resp' = TaskError(400, 1, storeError) /\ UNCHANGED tasks
     ELSE IF id \notin DOMAIN tasks
     THEN /\ resp' = [Sent EXCEPT !.status = 404, !.queries = 1,
                                  !.message = "Tarea no encontrada"]
          /\ UNCHANGED tasks
     ELSE LET set == [tasks[id] EXCEPT
                        !.title = Or(body.title, @),
                        !.description = Or(body.description, @),
                        !.completed = IF body.completed # Undef
                                      THEN body.completed ELSE @]
              task == IF set # tasks[id] THEN [set EXCEPT !.updatedAt = now] ELSE set
          IN IF TaskErrors(task) # {}
             THEN /\ resp' = [TaskError(400, 1, <<"V", "E">>)
                                EXCEPT !.errors = TaskErrors(task)]
                  /\ UNCHANGED tasks
             ELSE IF fail = 2
             THEN resp' = TaskError(400, 2, storeError) /\ UNCHANGED tasks
             ELSE /\ tasks' = [tasks EXCEPT ![id] = task]
                  /\ resp' = [Sent EXCEPT !.status = 200, !.queries = 2,
                                          !.service = <<task>>]
  /\ UNCHANGED <<store, nextId, now, deleted, payload, env, storeError, client, app, reqs, pending,
                 view>>

DeleteTask(id, fail) ==
  /\ req' = [Request("deleteTask", id, EmptyBody, <<>>) EXCEPT !.fail = fail]
  /\ IF ~Castable(id)
     THEN resp' = TaskError(500, 0, <<"C", "E">>) /\ UNCHANGED tasks
     ELSE IF fail = 1
     THEN resp' = TaskError(500, 1, storeError) /\ UNCHANGED tasks
     ELSE IF id \notin DOMAIN tasks
     THEN /\ resp' = [Sent EXCEPT !.status = 404, !.queries = 1,
                                  !.message = "Tarea no encontrada"]
          /\ UNCHANGED tasks
     ELSE IF fail = 2
     THEN resp' = TaskError(500, 2, storeError) /\ UNCHANGED tasks
     ELSE /\ tasks' = DeleteOne(tasks, id)
          /\ resp' = [Sent EXCEPT !.status = 200, !.queries = 2,
                                  !.message = "Tarea eliminada"]
  /\ UNCHANGED <<store, nextId, now, deleted, payload, env, storeError, client, app, reqs, pending,
                 view>>

(***************************************************************************)
(* SpecTasks: any sequence of task requests, each store round trip of      *)
(* which may fail.                                                         *)
(***************************************************************************)
NextTasks ==
  \/ \E fail \in ReadFaults : GetAllTasks(fail)
  \/ \E title \in {Undef, Str(<<"t">>)}, fail \in ReadFaults :
       CreateTask([title |-> title, description |-> Str(<<"d">>),
                   completed |-> Undef], fail)
  \/ \E id \in IdInputs, fail \in ReadFaults : GetTaskById(id, fail)
  \/ \E id \in IdInputs, title \in {Undef, Str(<<"u">>)},
        completed \in {Undef, [False EXCEPT !.n = 1], Str(<<"x">>)},
        fail \in WriteFaults :
       UpdateTask(id, [title |-> title, description |-> Str(<<"d">>),
                       completed |-> completed], fail)
  \/ \E id \in IdInputs, fail \in WriteFaults : DeleteTask(id, fail)
  \/ Tick

SpecTasks == Init /\ [][NextTasks]_vars

(***************************************************************************)
(* The entry points and the store connection: the server bootstrap         *)
(* ("server"), the serverless bootstrap over the routers ("serverless")    *)
(* and the inline serverless application ("inline").  A path is the        *)
(* sequence of its segments; a caller of mongoose.connect is the number of *)
(* its request, 0 for the start-up call.                                   *)
(***************************************************************************)
\* req.path.startsWith('/api/')
StartsWithApi(path) == Len(path) >= 2 /\ path[1] = "api"

\* the connection middleware's test (inline application only)
NeedsConnection(path) ==
  app.entry = "inline" /\ StartsWithApi(path) /\ path # <<"api", "health">>

\* the paths the entry point has a route for
Routed(path) ==
  \/ path \in {<<>>, <<"api", "services">>}
  \/ path = <<"api", "tasks">> /\ app.entry # "inline"
  \/ path = <<"api", "health">> /\ app.entry # "server"

InitConn ==
  /\ store = <<>>
  /\ nextId = 1
  /\ now = 0
  /\ req = Request("none", 0, EmptyBody, <<>>)
  /\ resp = Response
  /\ deleted = {}
  /\ env = "production"
  /\ storeError = <<"E", "1">>
  /\ payload = EmptyBody
  /\ client = [checked |-> FALSE, isValid |-> FALSE, errors |-> <<>>, threw |-> FALSE]
  /\ tasks = <<>>
  /\ reqs = [r \in 1..MaxRequests |-> IdleRequest]
  /\ pending = [pc |-> "idle", start |-> <<>>, seen |-> <<>>,
               updates |-> [r \in 1..MaxRequests |-> [pc |-> "idle"]]]
  /\ view = [loading |-> TRUE, loads |-> 1, error |-> FALSE, services |-> <<>>,
             searchTerm |-> <<>>, categoryFilter |-> <<"a", "l", "l">>]
  /\ \E entry \in {"server", "serverless", "inline"}, uri \in BOOLEAN :
       app = LoadedApp(entry, uri)

\* a request arrives: the inline middleware calls connectMongoDB for the
\* paths it guards, which returns at once when isConnected, throws when the
\* URI is missing and calls mongoose.connect otherwise; every other request
\* goes to its route
Arrive(r, path) ==
  /\ ~app.exited
  /\ reqs[r].pc = "idle"
  /\ IF NeedsConnection(path) /\ ~app.isConnected
     THEN IF app.uri
          THEN /\ app' = [app EXCEPT !.calls = @ \cup {r}]
               /\ reqs' = [reqs EXCEPT ![r].path = path, ![r].pc = "connecting"]
          ELSE /\ app' = [app EXCEPT !.isConnected = FALSE]
               /\ reqs' = [reqs EXCEPT ![r].path = path, ![r].pc = "done",
                                       ![r].status = 500]
     ELSE /\ reqs' = [reqs EXCEPT ![r].path = path, ![r].pc = "route"]
          /\ UNCHANGED app
  /\ UNCHANGED <<store, nextId, now, req, resp, deleted, payload, env, storeError,
                 client, tasks, pending, view>>

\* a pending mongoose.connect call resolves: the inline connectMongoDB sets
\* isConnected and its caller's middleware calls next()
ConnectResolves(c) ==
  /\ ~app.exited
  /\ c \in app.calls
  /\ app' = [app EXCEPT !.calls = @ \ {c}, !.ready = TRUE,
                        !.isConnected = (app.entry = "inline"),
                        !.startup = IF c = 0 THEN "connected" ELSE @]
  /\ reqs' = IF c = 0 THEN reqs ELSE [reqs EXCEPT ![c].pc = "route"]
  /\ UNCHANGED <<store, nextId, now, req, resp, deleted, payload, env, storeError,
                 client, tasks, pending, view>>

\* ConnectRejects with a middleware that calls next() from its catch block
ConnectRejects_CallsNext(c) ==
  /\ ~app.exited
  /\ c \in app.calls
  /\ app' = [app EXCEPT !.calls = @ \ {c}, !.isConnected = FALSE,
                        !.startup = IF c = 0 THEN "failed" ELSE @,
                        !.exited = (app.entry = "server")]
  /\ reqs' = IF c = 0 THEN reqs ELSE [reqs EXCEPT ![c].pc = "route"]
  /\ UNCHANGED <<store, nextId, now, req, resp, deleted, payload, env, storeError,
                 client, tasks, pending, view>>

\* a pending mongoose.connect call rejects: the server bootstrap exits, the
\* serverless bootstrap logs, the inline connectMongoDB resets isConnected and
\* rethrows, to the middleware's 500 or to the start-up call's log
ConnectRejects(c) ==
  /\ ~app.exited
  /\ c \in app.calls
  /\ app' = [app EXCEPT !.calls = @ \ {c}, !.isConnected = FALSE,
                        !.startup = IF c = 0 THEN "failed" ELSE @,
                        !.exited = (app.entry = "server")]
  /\ reqs' = IF c = 0 THEN reqs
             ELSE [reqs EXCEPT ![c].pc = "done", ![c].status = 500]
  /\ UNCHANGED <<store, nextId, now, req, resp, deleted, payload, env, storeError,
                 client, tasks, pending, view>>

\* the request reaches its route: without one Express answers 404; a handler
\* of /api/services or /api/tasks answers 500 when its query is buffered
\* until the buffering times out because there is no connection
RunHandler(r) ==
  /\ ~app.exited
  /\ reqs[r].pc = "route"
  /\ reqs' = [reqs EXCEPT
                ![r].pc = "done",
                ![r].ran = Routed(reqs[r].path),
                ![r].status =
                  IF ~Routed(reqs[r].path) THEN 404
                  ELSE IF reqs[r].path \in {<<"api", "services">>, <<"api", "tasks">>}
                          /\ ~app.ready
                  THEN 500 ELSE 200]
  /\ UNCHANGED <<store, nextId, now, req, resp, deleted, payload, env, storeError,
                 client, tasks, app, pending, view>>

\* the response has been sent: the number serves the next request
Finish(r) ==
  /\ reqs[r].pc = "done"
  /\ reqs' = [reqs EXCEPT ![r] = IdleRequest]
  /\ UNCHANGED <<store, nextId, now, req, resp, deleted, payload, env, storeError,
                 client, tasks, app, pending, view>>

NextConn ==
  \/ \E r \in 1..MaxRequests,
        path \in {<<>>, <<"api">>, <<"api", "health">>, <<"api", "services">>,
                  <<"api", "tasks">>} : Arrive(r, path)
  \/ \E c \in 0..MaxRequests : ConnectResolves(c)
  \/ \E c \in 0..MaxRequests : ConnectRejects(c)
  \/ \E r \in 1..MaxRequests : RunHandler(r)
  \/ \E r \in 1..MaxRequests : Finish(r)

SpecConn == InitConn /\ [][NextConn]_vars

(***************************************************************************)
(* getServiceStats query by query: Promise.all issues the eight queries at *)
(* once, the store executes each on the collection as it is when the query *)
(* reaches it, in any order, and requests of other clients are executed in *)
(* between.                                                                *)
(***************************************************************************)
\* the snapshot built from the eight results, query i having been executed on
\* the collection seen[i] (lines 349-370)
StatsFrom(seen, clock) ==
  [overview |->
     [totalServices |-> StatsOf(seen[1], clock).overview.totalServices,
      activeServices |-> StatsOf(seen[2], clock).overview.activeServices,
      newServices |-> StatsOf(seen[3], clock).overview.newServices,
      pausedServices |-> StatsOf(seen[4], clock).overview.pausedServices,
      inactiveServices |-> StatsOf(seen[5], clock).overview.inactiveServices],
   clients |-> StatsOf(seen[6], clock).clients,
   categories |-> StatsOf(seen[7], clock).categories,
   pricing |-> StatsOf(seen[8], clock).pricing,
   lastUpdated |-> clock]

\* the handler is entered and Promise.all has issued the queries
StatsStart ==
  /\ pending.pc = "idle"
  /\ pending' = [pending EXCEPT !.pc = "stats", !.start = store, !.seen = <<>>]
  /\ UNCHANGED <<store, nextId, now, req, resp, deleted, payload, env, storeError,
                 client, tasks, app, reqs, view>>

\* mutant: the query is answered from an empty collection
StatsQuery_Empty(i) ==
  /\ pending.pc = "stats"
  /\ i \notin DOMAIN pending.seen
  /\ pending' = [pending EXCEPT !.seen = (i :> <<>>) @@ @]
  /\ UNCHANGED <<store, nextId, now, req, resp, deleted, payload, env, storeError,
                 client, tasks, app, reqs, view>>

\* the store executes query i
StatsQuery(i) ==
  /\ pending.pc = "stats"
  /\ i \notin DOMAIN pending.seen
  /\ pending' = [pending EXCEPT !.seen = (i :> store) @@ @]
  /\ UNCHANGED <<store, nextId, now, req, resp, deleted, payload, env, storeError,
                 client, tasks, app, reqs, view>>

\* Promise.all has resolved: res.json(stats)
StatsRespond ==
  /\ pending.pc = "stats"
  /\ DOMAIN pending.seen = 1..StatsQueries
  /\ req' = Request("getServiceStats", 0, EmptyBody, <<>>)
  /\ resp' = [Sent EXCEPT !.status = 200, !.queries = StatsQueries,
                          !.stats = <<StatsFrom(pending.seen, now)>>]
  /\ pending' = [pending EXCEPT !.pc = "done"]
  /\ UNCHANGED <<store, nextId, now, deleted, payload, env, storeError,
                 client, tasks, app, reqs, view>>

\* SpecStats: one stats request beside the create and delete requests of
\* other clients, of which at most one changes the collection while the stats
\* request is running
NextStats ==
  \/ StatsStart
  \/ \E i \in 1..StatsQueries : StatsQuery(i)
  \/ StatsRespond
  \/ /\ pending.pc = "idle" \/ (pending.pc = "stats" /\ store = pending.start)
     /\ \/ CreateService(ValidBody2, 0)
        \/ \E id \in 1..MaxIds : DeleteService(id, 0)

SpecStats == Init /\ [][NextStats]_vars

(***************************************************************************)
(* updateService round trip by round trip: findById, then, for a document  *)
(* that passed validation and was modified, the write of save(), which     *)
(* sends updateOne({ _id }, { $set: <the modified paths> }).  Requests of  *)
(* other clients are executed in between.                                  *)
(***************************************************************************)
\* findById has answered request r: the fields are overlaid and save() runs
\* up to its write; inline: the handler of the inline application
UpdateLoad(r, id, body, inline) ==
  LET service == Overlay(store[id], body)
      s == IF inline THEN InlineSave(service, now) ELSE Save(service, now)
      delta == {p \in Paths : s.doc[p] # store[id][p]}
      this == [pc |-> "done", id |-> id, body |-> body, delta |-> {}, doc |-> <<>>,
               status |-> 0,
               overlaps |-> \E o \in DOMAIN pending.updates :
                              /\ pending.updates[o].pc = "saving"
                              /\ pending.updates[o].id = id]
  IN /\ pending.updates[r].pc = "idle"
     /\ req' = Request("updateService", id, body, <<>>)
     /\ IF ~Castable(id)
        THEN /\ resp' = [Sent EXCEPT !.status = 400, !.message = "ID de servicio invalido"]
             /\ pending' = [pending EXCEPT !.updates[r] = [this EXCEPT !.status = 400]]
        ELSE IF id \notin DOMAIN store
        THEN /\ resp' = [Sent EXCEPT !.status = 404, !.queries = 1,
                           !.message = "Servicio no encontrado para actualizar"]
             /\ pending' = [pending EXCEPT !.updates[r] = [this EXCEPT !.status = 404]]
        ELSE IF ~s.ok
        THEN /\ resp' = [Sent EXCEPT !.status = 400, !.errors = s.errors, !.queries = 1,
                           !.message = "Error de validacion en actualizacion"]
             /\ pending' = [pending EXCEPT !.updates[r] = [this EXCEPT !.status = 400]]
        ELSE IF service.modified = {}
        THEN /\ resp' = [Sent EXCEPT !.status = 200, !.service = <<s.doc>>, !.queries = 1,
                           !.message = "Servicio actualizado exitosamente"]
             /\ pending' = [pending EXCEPT !.updates[r] =
                              [this EXCEPT !.status = 200, !.doc = s.doc]]
        ELSE /\ resp' = resp
             /\ pending' = [pending EXCEPT !.updates[r] =
                              [this EXCEPT !.pc = "saving", !.delta = delta, !.doc = s.doc]]
     /\ UNCHANGED <<store, nextId, now, deleted, payload, env, storeError,
                    client, tasks, app, reqs, view>>

\* mutant: save() replaces the stored document by the one in memory
UpdateWrite_WholeDocument(r) ==
  LET u == pending.updates[r]
  IN /\ u.pc = "saving"
     /\ u.id \in DOMAIN store
     /\ store' = [store EXCEPT ![u.id] = u.doc]
     /\ resp' = [Sent EXCEPT !.status = 200, !.service = <<u.doc>>, !.queries = 2,
                   !.message = "Servicio actualizado exitosamente"]
     /\ pending' = [pending EXCEPT !.updates[r].pc = "done", !.updates[r].status = 200]
     /\ UNCHANGED <<nextId, now, req, deleted, payload, env, storeError,
                    client, tasks, app, reqs, view>>

\* the store executes the write of request r: the modified paths and
\* updatedAt are set on the stored document; save() rejects with a
\* DocumentNotFoundError when the document is gone
UpdateWrite(r) ==
  LET u == pending.updates[r]
  IN /\ u.pc = "saving"
     /\ IF u.id \in DOMAIN store
        THEN /\ store' = [store EXCEPT ![u.id] =
                            [p \in DOMAIN @ |->
                               IF p \in u.delta \cup {"updatedAt"} THEN u.doc[p] ELSE @[p]]]
             /\ resp' = [Sent EXCEPT !.status = 200, !.service = <<u.doc>>, !.queries = 2,
                           !.message = "Servicio actualizado exitosamente"]
             /\ pending' = [pending EXCEPT !.updates[r].pc = "done",
                                           !.updates[r].status = 200]
        ELSE /\ resp' = ServerError("Error interno del servidor al actualizar", 2,
                                    <<"D", "E">>)
             /\ pending' = [pending EXCEPT !.updates[r].pc = "done",
                                           !.updates[r].status = 500]
             /\ UNCHANGED store
     /\ UNCHANGED <<nextId, now, req, deleted, payload, env, storeError,
                    client, tasks, app, reqs, view>>

\* SpecRace: two update requests at a time, of either application, on the
\* records two creates have left, beside deletes
NextRace ==
  \/ CreateService(ValidBody2, 0)
  \/ \E r \in 1..MaxRequests, id \in IdInputs, inline \in BOOLEAN,
        body \in {[EmptyBody EXCEPT !.status = Str(Pausado)],
                  [EmptyBody EXCEPT !.clients = Num(4)],
                  [EmptyBody EXCEPT !.status = Str(Inactivo), !.price = Num(7)],
                  [EmptyBody EXCEPT !.price = Num(-1)]} :
       UpdateLoad(r, id, body, inline)
  \/ \E r \in 1..MaxRequests : UpdateWrite(r)
  \/ \E id \in 1..MaxIds : DeleteService(id, 0)

SpecRace == Init /\ [][NextRace]_vars

(***************************************************************************)
(* The Products view (components/Products.jsx): the services the last      *)
(* successful load returned, the loading and error flags, the search term  *)
(* and the category filter; loads counts the loadServices calls that are   *)
(* waiting for the backend.                                                *)
(***************************************************************************)
\* the static list the component keeps beside the backend's data
fallbackServices ==
  <<
    [id |-> 1,
     name |-> Str(<<"S", "E", "O", " ", "&", " ", "P", "o", "s", "i", "c",
        "i", "o", "n", "a", "m", "i", "e", "n", "t", "o", " ", "W", "e",
        "b">>),
     category |-> Str(Digital),
     price |-> Str(<<"$", "8", "9", "9">>),
     duration |-> Str(<<"3", "-", "6", " ", "m", "e", "s", "e", "s">>),
     status |-> Str(Activo),
     description |-> Str(<<"O", "p", "t", "i", "m", "i", "z", "a", "c",
        "i", "o'", "n", " ", "c", "o", "m", "p", "l", "e", "t", "a", " ",
        "p", "a", "r", "a", " ", "m", "o", "t", "o", "r", "e", "s", " ",
        "d", "e", " ", "b", "u'", "s", "q", "u", "e", "d", "a">>),
     clients |-> Num(45)],
    [id |-> 2,
     name |-> Str(<<"S", "o", "c", "i", "a", "l", " ", "M", "e", "d", "i",
        "a", " ", "M", "a", "r", "k", "e", "t", "i", "n", "g">>),
     category |-> Str(Social),
     price |-> Str(<<"$", "5", "9", "9">>),
     duration |-> Str(<<"M", "e", "n", "s", "u", "a", "l">>),
     status |-> Str(Activo),
     description |-> Str(<<"G", "e", "s", "t", "i", "o'", "n", " ", "c",
        "o", "m", "p", "l", "e", "t", "a", " ", "d", "e", " ", "r", "e",
        "d", "e", "s", " ", "s", "o", "c", "i", "a", "l", "e", "s">>),
     clients |-> Num(78)],
    [id |-> 3,
     name |-> Str(<<"G", "o", "o", "g", "l", "e", " ", "A", "d", "s", " ",
        "&", " ", "P", "P", "C">>),
     category |-> Str(Digital),
     price |-> Str(<<"$", "1", ",", "2", "9", "9">>),
     duration |-> Str(<<"M", "e", "n", "s", "u", "a", "l">>),
     status |-> Str(Activo),
     description |-> Str(<<"C", "a", "m", "p", "a", "n~", "a", "s", " ",
        "p", "u", "b", "l", "i", "c", "i", "t", "a", "r", "i", "a", "s",
        " ", "e", "n", " ", "G", "o", "o", "g", "l", "e", " ", "y", " ",
        "r", "e", "d", "e", "s">>),
     clients |-> Num(34)],
    [id |-> 4,
     name |-> Str(<<"C", "o", "n", "t", "e", "n", "t", " ", "M", "a", "r",
        "k", "e", "t", "i", "n", "g">>),
     category |-> Str(Contenido),
     price |-> Str(<<"$", "7", "9", "9">>),
     duration |-> Str(<<"M", "e", "n", "s", "u", "a", "l">>),
     status |-> Str(Activo),
     description |-> Str(<<"C", "r", "e", "a", "c", "i", "o'", "n", " ",
        "d", "e", " ", "c", "o", "n", "t", "e", "n", "i", "d", "o", " ",
        "e", "s", "t", "r", "a", "t", "e'", "g", "i", "c", "o">>),
     clients |-> Num(56)],
    [id |-> 5,
     name |-> Str(<<"E", "m", "a", "i", "l", " ", "M", "a", "r", "k", "e",
        "t", "i", "n", "g">>),
     category |-> Str(Digital),
     price |-> Str(<<"$", "3", "9", "9">>),
     duration |-> Str(<<"M", "e", "n", "s", "u", "a", "l">>),
     status |-> Str(Activo),
     description |-> Str(<<"C", "a", "m", "p", "a", "n~", "a", "s", " ",
        "a", "u", "t", "o", "m", "a", "t", "i", "z", "a", "d", "a", "s",
        " ", "d", "e", " ", "e", "m", "a", "i", "l">>),
     clients |-> Num(89)],
    [id |-> 6,
     name |-> Str(<<"D", "i", "s", "e", "n~", "o", " ", "G", "r", "a'",
        "f", "i", "c", "o", " ", "&", " ", "B", "r", "a", "n", "d", "i",
        "n", "g">>),
     category |-> Str(Diseno),
     price |-> Str(<<"$", "1", ",", "1", "9", "9">>),
     duration |-> Str(<<"2", "-", "4", " ", "s", "e", "m", "a", "n", "a",
        "s">>),
     status |-> Str(Activo),
     description |-> Str(<<"I", "d", "e", "n", "t", "i", "d", "a", "d",
        " ", "v", "i", "s", "u", "a", "l", " ", "y", " ", "m", "a", "t",
        "e", "r", "i", "a", "l", "e", "s", " ", "g", "r", "a'", "f", "i",
        "c", "o", "s">>),
     clients |-> Num(67)],
    [id |-> 7,
     name |-> Str(<<"D", "e", "s", "a", "r", "r", "o", "l", "l", "o", " ",
        "W", "e", "b">>),
     category |-> Str(Desarrollo),
     price |-> Str(<<"$", "2", ",", "4", "9", "9">>),
     duration |-> Str(<<"4", "-", "8", " ", "s", "e", "m", "a", "n", "a",
        "s">>),
     status |-> Str(Activo),
     description |-> Str(<<"S", "i", "t", "i", "o", "s", " ", "w", "e",
        "b", " ", "p", "r", "o", "f", "e", "s", "i", "o", "n", "a", "l",
        "e", "s", " ", "y", " ", "e", "-", "c", "o", "m", "m", "e", "r",
        "c", "e">>),
     clients |-> Num(23)],
    [id |-> 8,
     name |-> Str(<<"M", "a", "r", "k", "e", "t", "i", "n", "g", " ", "A",
        "n", "a", "l", "y", "t", "i", "c", "s">>),
     category |-> Str(Analisis),
     price |-> Str(<<"$", "6", "9", "9">>),
     duration |-> Str(<<"M", "e", "n", "s", "u", "a", "l">>),
     status |-> Str(Activo),
     description |-> Str(<<"A", "n", "a'", "l", "i", "s", "i", "s", " ",
        "y", " ", "r", "e", "p", "o", "r", "t", "e", "s", " ", "d", "e",
        " ", "r", "e", "n", "d", "i", "m", "i", "e", "n", "t", "o">>),
     clients |-> Num(41)],
    [id |-> 9,
     name |-> Str(<<"I", "n", "f", "l", "u", "e", "n", "c", "e", "r", " ",
        "M", "a", "r", "k", "e", "t", "i", "n", "g">>),
     category |-> Str(Social),
     price |-> Str(<<"$", "1", ",", "5", "9", "9">>),
     duration |-> Str(<<"P", "o", "r", " ", "c", "a", "m", "p", "a", "n~",
        "a">>),
     status |-> Str(Nuevo),
     description |-> Str(<<"C", "o", "l", "a", "b", "o", "r", "a", "c",
        "i", "o", "n", "e", "s", " ", "c", "o", "n", " ", "i", "n", "f",
        "l", "u", "e", "n", "c", "e", "r", "s">>),
     clients |-> Num(12)],
    [id |-> 10,
     name |-> Str(<<"V", "i", "d", "e", "o", " ", "M", "a", "r", "k", "e",
        "t", "i", "n", "g">>),
     category |-> Str(Contenido),
     price |-> Str(<<"$", "1", ",", "8", "9", "9">>),
     duration |-> Str(<<"2", "-", "3", " ", "s", "e", "m", "a", "n", "a",
        "s">>),
     status |-> Str(Activo),
     description |-> Str(<<"P", "r", "o", "d", "u", "c", "c", "i", "o'",
        "n", " ", "d", "e", " ", "v", "i", "d", "e", "o", "s", " ", "p",
        "u", "b", "l", "i", "c", "i", "t", "a", "r", "i", "o", "s">>),
     clients |-> Num(28)]
  >>

\* the list the table is built from
currentServices ==
  IF view.loading THEN <<>>
  ELSE IF Len(view.services) > 0 THEN view.services ELSE fallbackServices

\* the filter's test: the lower-cased name or description includes the
\* lower-cased search term, and the category is the selected one or 'all'
MatchesFilters(service) ==
  LET Upper == <<"A", "B", "C", "D", "E", "F", "G", "H", "I", "J", "K", "L", "M",
                 "N", "O", "P", "Q", "R", "S", "T", "U", "V", "W", "X", "Y", "Z">>
      Lower == <<"a", "b", "c", "d", "e", "f", "g", "h", "i", "j", "k", "l", "m",
                 "n", "o", "p", "q", "r", "s", "t", "u", "v", "w", "x", "y", "z">>
      toLowerCase(q) ==
        [i \in 1..Len(q) |->
           IF \E k \in 1..26 : Upper[k] = q[i]
           THEN Lower[CHOOSE k \in 1..26 : Upper[k] = q[i]] ELSE q[i]]
      includes(text, term) ==
        \E i \in 0..(Len(text) - Len(term)) :
          SubSeq(text, i + 1, i + Len(term)) = term
      term == toLowerCase(view.searchTerm)
      matchesSearch == \/ includes(toLowerCase(service.name.s), term)
                       \/ includes(toLowerCase(service.description.s), term)
      matchesCategory == \/ view.categoryFilter = <<"a", "l", "l">>
                         \/ service.category.s = view.categoryFilter
  IN matchesSearch /\ matchesCategory

\* the rows of the table
filteredServices == SelectSeq(currentServices, MatchesFilters)

\* the table body shows the empty state with the 'Crear primer servicio' button
ShowsEmptyState ==
  /\ ~view.loading
  /\ Len(filteredServices) = 0
  /\ view.searchTerm = <<>> /\ view.categoryFilter = <<"a", "l", "l">>

\* loadServices is called (on mount, which Init has done, and after a create,
\* an update or a delete): it sets loading, clears the error and sends its two
\* requests
loadServices ==
  /\ view.loads < MaxRequests
  /\ view' = [view EXCEPT !.loading = TRUE, !.error = FALSE, !.loads = @ + 1]
  /\ UNCHANGED <<store, nextId, now, req, resp, deleted, payload, env, storeError,
                 client, tasks, app, reqs, pending>>

\* the two requests of a loadServices call are answered: with the list when
\* both succeed (fail = 0), else with an error, which leaves the list as it
\* was; loading ends either way
LoadServicesDone(fail) ==
  /\ view.loads > 0
  /\ IF fail = 0
     THEN \E q \in SortedByCreatedAtDesc(Documents(store)) :
            view' = [view EXCEPT !.services = q, !.loading = FALSE, !.loads = @ - 1]
     ELSE view' = [view EXCEPT !.error = TRUE, !.loading = FALSE, !.loads = @ - 1]
  /\ UNCHANGED <<store, nextId, now, req, resp, deleted, payload, env, storeError,
                 client, tasks, app, reqs, pending>>

\* the search box changes
SetSearchTerm(term) ==
  /\ view' = [view EXCEPT !.searchTerm = term]
  /\ UNCHANGED <<store, nextId, now, req, resp, deleted, payload, env, storeError,
                 client, tasks, app, reqs, pending>>

\* the category dropdown changes
SetCategoryFilter(category) ==
  /\ view' = [view EXCEPT !.categoryFilter = category]
  /\ UNCHANGED <<store, nextId, now, req, resp, deleted, payload, env, storeError,
                 client, tasks, app, reqs, pending>>

NextView ==
  \/ \E body \in {ValidBody1, ValidBody2} : CreateService(body, 0)
  \/ \E id \in IdInputs : DeleteService(id, 0)
  \/ loadServices
  \/ \E fail \in {0, 1} : LoadServicesDone(fail)
  \/ \E term \in {<<>>, <<"C", "D">>, <<"q", "q">>} : SetSearchTerm(term)
  \/ \E category \in {<<"a", "l", "l">>, Digital, Social} :
       SetCategoryFilter(category)

SpecView == Init /\ [][NextView]_vars

(***************************************************************************)
(* The Service field constraints of the data model, stated on a request    *)
(* body: what the claims call a valid value.                               *)
(***************************************************************************)
CategorySet == {Digital, Social, Contenido, Diseno, Desarrollo, Analisis}
StatusSet == {Activo, Nuevo, Pausado, Inactivo}
RequiredFields == {"name", "category", "price", "duration", "description"}

\* a text of 1 to max characters that is not white space only
TextValid(v, max) == IsStr(v) /\ Len(v.s) <= max /\ Trim(v.s) # <<>>

\* the value v satisfies the constraint of field p; status and clients may be
\* left out, and a falsy one counts as left out
FieldValid(p, v) ==
  CASE p = "name" -> TextValid(v, 100)
    [] p = "category" -> IsStr(v) /\ v.s \in CategorySet
    [] p = "price" -> IsNum(v) /\ v.n >= 0
    [] p = "duration" -> IsStr(v) /\ Len(v.s) >= 1 /\ Len(v.s) <= 50
    [] p = "description" -> TextValid(v, 500)
    [] p = "status" -> ~Truthy(v) \/ (IsStr(v) /\ v.s \in StatusSet)
    [] OTHER -> ~Truthy(v) \/ (IsNum(v) /\ v.n >= 0)

ValidPayload(b) == \A p \in Paths : FieldValid(p, b[p])

\* the name with its first character upper-cased
UpperFirst(q) == IF q = <<>> THEN q ELSE ToUpperCase(Head(q)) \o Tail(q)

(***************************************************************************)
(* C1.  create followed by getById.                                        *)
(***************************************************************************)
\* C1 as claimed: for a valid payload, the record getServiceById returns for a
\* created id has the payload's category, price, duration, description and the
\* status and clients it supplies (a falsy one counts as left out), and its
\* name with only the first character upper-cased.
C1_AsClaimed ==
  (req.op = "getServiceById" /\ resp.status = 200 /\ ValidPayload(payload))
    => LET d == resp.service[1]
       IN /\ d.name = Str(UpperFirst(payload.name.s))
          /\ \A p \in {"category", "price", "duration", "description"} : d[p] = payload[p]
          /\ \A p \in {"status", "clients"} : Truthy(payload[p]) => d[p] = payload[p]

\* C1, amended: for a valid payload createService answers 201, and the record
\* getServiceById returns for the created id has the payload's category,
\* price, duration and the status and clients it supplies; its name and
\* description are the payload's with the surrounding white space trimmed,
\* the first character of the trimmed name upper-cased.
C1_CreateThenGet ==
  /\ (req.op = "createService" /\ ValidPayload(payload)) => resp.status = 201
  /\ (req.op = "getServiceById" /\ resp.status = 200 /\ ValidPayload(payload))
       => LET d == resp.service[1]
          IN /\ d.name = Str(UpperFirst(Trim(payload.name.s)))
             /\ d.description = Str(Trim(payload.description.s))
             /\ \A p \in {"category", "price", "duration"} : d[p] = payload[p]
             /\ \A p \in {"status", "clients"} : Truthy(payload[p]) => d[p] = payload[p]
             /\ d.id = req.id

\* a padded name was created and read back
C1_Witness ==
  /\ req.op = "getServiceById" /\ resp.status = 200
  /\ ValidPayload(payload)
  /\ payload.name = Str(<<" ", "a", "b", " ">>)
  /\ payload.status = Str(Activo)
  /\ resp.service[1].name = Str(<<"A", "b">>)

(***************************************************************************)
(* C2.  create with a required field missing.                              *)
(***************************************************************************)
\* C2: when a required field is missing from the create body, createService
\* answers 400, the store holds no record, and the errors carry a message for
\* exactly the fields whose value is missing or invalid.
C2_MissingFieldsRejected ==
  (req.op = "createService" /\ \E p \in RequiredFields : payload[p] = Undef)
    => /\ resp.status = 400
       /\ DOMAIN store = {}
       /\ {e.path : e \in resp.errors} = {p \in Paths : ~FieldValid(p, payload[p])}

\* a body without a name, with a negative price and a valid category was sent
C2_Witness ==
  /\ req.op = "createService" /\ resp.status = 400
  /\ payload.name = Undef /\ payload.price = Num(-1)
  /\ payload.category = Str(Digital) /\ payload.clients = Num(0)
  /\ {e.path : e \in resp.errors} = {"name", "price"}

(***************************************************************************)
(* C3.  updateService leaves alone what the body leaves out.               *)
(***************************************************************************)
\* C3: an updateService request changes only the fields its body carries:
\* every record other than the addressed one, and every field of the addressed
\* record that is absent from the body, keeps its value, as do the id and
\* createdAt; with an empty body all seven fields keep their values.
C3_AbsentFieldsKept ==
  [][req'.op = "updateService"
       => /\ DOMAIN store' = DOMAIN store
          /\ \A id \in DOMAIN store :
               /\ store'[id].id = store[id].id
               /\ store'[id].createdAt = store[id].createdAt
               /\ \A p \in Paths :
                    (id # req'.id \/ req'.body[p] = Undef)
                      => store'[id][p] = store[id][p]
               /\ (id # req'.id \/ req'.body = EmptyBody)
                    => \A p \in Paths : store'[id][p] = store[id][p]]_vars

\* an update that carries a status and no name was applied after time passed
C3_Witness ==
  /\ req.op = "updateService" /\ req.id = 1 /\ resp.status = 200
  /\ payload.status = Str(Pausado) /\ payload.name = Undef
  /\ store[1].status = Str(Pausado)
  /\ store[1].name = Str(<<"C", "d">>)
  /\ store[1].updatedAt = 1 /\ store[1].createdAt = 0

(***************************************************************************)
(* C4.  updateService and the falsy values of a body.                      *)
(***************************************************************************)
\* C4 as claimed: a field the body sets to a falsy value ("", 0, null, false)
\* keeps its stored value, for each of the seven fields.
C4_AsClaimed ==
  [][req'.op = "updateService"
       => \A id \in DOMAIN store \cap DOMAIN store', p \in Paths :
            (id = req'.id /\ req'.body[p] \in Falsy)
              => store'[id][p] = store[id][p]]_vars

\* what the number cast makes of a falsy value
C4_FalsyAsNumber(v) == IF v \in {Num(0), False} THEN Num(0) ELSE Null

\* C4, amended: a falsy value keeps the stored value of name, category,
\* duration, status and description.  price and clients are absent only when
\* undefined: 0 and false are stored as 0; null and "" become null, which an
\* accepted update stores for clients and which the update rejects with 400
\* for price, the record unchanged.
C4_FalsyFields ==
  [][req'.op = "updateService"
       => \A id \in DOMAIN store \cap DOMAIN store' :
            id = req'.id
              => /\ \A p \in StringPaths :
                      ~Truthy(req'.body[p]) => store'[id][p] = store[id][p]
                 /\ \A p \in NumberPaths :
                      /\ req'.body[p] = Undef => store'[id][p] = store[id][p]
                      /\ (req'.body[p] \in Falsy /\ resp'.status = 200)
                           => store'[id][p] = C4_FalsyAsNumber(req'.body[p])
                      /\ resp'.status # 200 => store'[id][p] = store[id][p]
                 /\ req'.body.price \in {Null, Str(<<>>)} => resp'.status = 400]_vars

\* an update with price 0 and an empty name was accepted: the price is 0, the
\* name is the stored one
C4_Witness ==
  /\ req.op = "updateService" /\ req.id = 1 /\ resp.status = 200
  /\ payload.price = Num(0) /\ payload.name = Str(<<>>)
  /\ store[1].price = Num(0)
  /\ store[1].name = Str(<<"A", "b">>)

(***************************************************************************)
(* C5.  a deleted record is not found again.                               *)
(***************************************************************************)
\* C5: once deleteService has answered 200 for an id, every getServiceById
\* request for that id answers 404, whatever requests came in between.
C5_DeletedNotFound ==
  (req.op = "getServiceById" /\ req.id \in deleted)
    => resp.status = 404 /\ resp.service = <<>>

\* a deleted id was looked up while another record is stored
C5_Witness ==
  /\ req.op = "getServiceById" /\ req.id \in deleted
  /\ resp.status = 404
  /\ DOMAIN store # {}

(***************************************************************************)
(* C6.  getServicesByCategory outside the category set.                    *)
(***************************************************************************)
\* C6: getServicesByCategory with a category outside the six values answers
\* 400 and sends no query to the store.
C6_InvalidCategory ==
  (req.op = "getServicesByCategory" /\ req.category \notin CategorySet)
    => resp.status = 400 /\ resp.queries = 0 /\ resp.services = <<>>

\* the lower-case spelling of a category was asked for, with a record stored
C6_Witness ==
  /\ req.op = "getServicesByCategory"
  /\ req.category = <<"d", "i", "g", "i", "t", "a", "l">>
  /\ resp.status = 400
  /\ \E id \in DOMAIN store : store[id].category = Str(Digital)

(***************************************************************************)
(* C7.  invalid identifier against unknown identifier.                     *)
(***************************************************************************)
\* C7: getServiceById, updateService and deleteService answer 400 to an
\* identifier that does not cast (the identifier 0), and 404 to a well-formed
\* identifier that has no record when the request arrives.
C7_IdentifierErrors ==
  [][req'.op \in {"getServiceById", "updateService", "deleteService"}
       => /\ req'.id = 0
               => resp'.status = 400 /\ resp'.message = "ID de servicio invalido"
          /\ (req'.id >= 1 /\ req'.id \notin DOMAIN store) => resp'.status = 404]_vars

\* an update with an identifier that does not cast was refused with records
\* in the store
C7_Witness ==
  /\ req.op = "updateService" /\ req.id = 0 /\ resp.status = 400
  /\ DOMAIN store # {}

C9_EmptyStoreZeros ==
  (req.op = "getServiceStats" /\ DOMAIN store = {})
    => /\ resp.status = 200
       /\ resp.stats # <<>>
       /\ resp.stats[1].pricing.averagePrice = Num(0)
       /\ resp.stats[1].pricing.minPrice = Num(0)
       /\ resp.stats[1].pricing.maxPrice = Num(0)
       /\ resp.stats[1].clients.totalClients = Num(0)

\* the statistics of a store that was emptied again
C9_Witness ==
  /\ req.op = "getServiceStats" /\ resp.status = 200
  /\ DOMAIN store = {} /\ deleted # {}

\* the sum of the clients of the records with an id up to k; a record whose
\* clients is null adds nothing
RECURSIVE C10_ClientsUpTo(_)
C10_ClientsUpTo(k) ==
  IF k = 0 THEN 0
  ELSE C10_ClientsUpTo(k - 1)
         + (IF k \in DOMAIN store /\ IsNum(store[k].clients) THEN store[k].clients.n ELSE 0)

\* C10: in every snapshot totalClients is the sum of clients over the records
\* stored when getServiceStats is called.
C10_TotalClients ==
  (req.op = "getServiceStats" /\ resp.stats # <<>>)
    => resp.stats[1].clients.totalClients = Num(C10_ClientsUpTo(nextId - 1))

\* a snapshot of two records with 4 and 3 clients
C10_Witness ==
  /\ req.op = "getServiceStats" /\ resp.stats # <<>>
  /\ Cardinality(DOMAIN store) = 2
  /\ resp.stats[1].clients.totalClients = Num(7)

(***************************************************************************)
(* C11.  one failing query fails the whole snapshot.                       *)
(***************************************************************************)
\* C11: when one of the eight queries of getServiceStats fails the request
\* answers 500 and carries no snapshot; a 200 with a snapshot is sent only
\* when all eight queries were issued and none failed.
C11_NoPartialSnapshot ==
  req.op = "getServiceStats"
    => /\ req.fail # 0 => (resp.status = 500 /\ resp.stats = <<>>)
       /\ resp.stats # <<>> => (resp.status = 200 /\ req.fail = 0
                                  /\ resp.queries = StatsQueries)
       /\ resp.status \in {200, 500}

\* the sixth query (the clients aggregation) failed on a store with a record
C11_Witness ==
  /\ req.op = "getServiceStats" /\ req.fail = 6
  /\ resp.status = 500 /\ resp.stats = <<>>
  /\ DOMAIN store # {}

(***************************************************************************)
(* C12.  the defaults of createService.                                    *)
(***************************************************************************)
\* C12: a valid create body without status and clients is stored with status
\* "Nuevo" and clients 0; the name "seo audit" is stored as "Seo audit"; a
\* status of the four values and a clients number >= 0 that the body carries
\* are stored as they are.
C12_CreateDefaults ==
  /\ (req.op = "createService" /\ ValidPayload(payload)
        /\ payload.status = Undef /\ payload.clients = Undef)
       => resp.status = 201
  /\ (req.op = "createService" /\ resp.status = 201)
       => LET d == store[resp.service[1].id]
          IN /\ payload.status = Undef => d.status = Str(Nuevo)
             /\ payload.clients = Undef => d.clients = Num(0)
             /\ payload.name = Str(<<"s", "e", "o", " ", "a", "u", "d", "i", "t">>)
                  => d.name = Str(<<"S", "e", "o", " ", "a", "u", "d", "i", "t">>)
             /\ (IsStr(payload.status) /\ payload.status.s \in StatusSet)
                  => d.status = payload.status
             /\ (IsNum(payload.clients) /\ payload.clients.n >= 0)
                  => d.clients = payload.clients

\* "seo audit" was created without status and clients
C12_Witness ==
  /\ req.op = "createService" /\ resp.status = 201
  /\ payload.name = Str(<<"s", "e", "o", " ", "a", "u", "d", "i", "t">>)
  /\ payload.status = Undef /\ payload.clients = Undef
  /\ store[1].name = Str(<<"S", "e", "o", " ", "a", "u", "d", "i", "t">>)
  /\ store[1].status = Str(Nuevo) /\ store[1].clients = Num(0)

(***************************************************************************)
(* C13.  the field constraints as an invariant of the store.               *)
(***************************************************************************)
\* the enumerations and the bounds on price and on the three lengths
C13_EnumsPriceLengths(d) ==
  /\ IsStr(d.category) /\ d.category.s \in CategorySet
  /\ IsStr(d.status) /\ d.status.s \in StatusSet
  /\ IsNum(d.price) /\ d.price.n >= 0
  /\ IsStr(d.description) /\ Len(d.description.s) <= 500
  /\ IsStr(d.duration) /\ Len(d.duration.s) <= 50
  /\ IsStr(d.name)

\* C13 as claimed: every stored record has its category among the six values,
\* its status among the four, price >= 0, clients >= 0, a name of at most 100
\* characters, a description of at most 500 and a duration of at most 50.
C13_StoredRecordsValid ==
  \A id \in DOMAIN store :
    /\ C13_EnumsPriceLengths(store[id])
    /\ IsNum(store[id].clients) /\ store[id].clients.n >= 0
    /\ Len(store[id].name.s) <= 100

(***************************************************************************)
(* C14.  the id of a record.                                               *)
(***************************************************************************)
\* C14: a record gets its id when createService stores it, an id no record
\* created before has or had; no request changes the id of a stored record,
\* an updateService whose body carries an id included.
C14_IdAssignedOnceAndKept ==
  [][/\ \A i \in DOMAIN store \cap DOMAIN store' : store'[i].id = store[i].id
     /\ \A i \in DOMAIN store' \ DOMAIN store :
          /\ req'.op = "createService" /\ resp'.status = 201
          /\ store'[i].id = i /\ resp'.service[1].id = i
          /\ i \notin deleted
          /\ \A j \in DOMAIN store : store[j].id # i
     /\ \A i, j \in DOMAIN store' : store'[i].id = store'[j].id => i = j]_vars

\* an update whose body carries the id of another record was applied
C14_Witness ==
  /\ req.op = "updateService" /\ req.id = 1 /\ resp.status = 200
  /\ req.body.id = Num(2)
  /\ DOMAIN store = {1, 2}
  /\ store[1].id = 1 /\ store[2].id = 2

(***************************************************************************)
(* C15.  the stored name starts with an upper-case character.              *)
(***************************************************************************)
\* C15 as claimed: every createService or updateService that answers 201 or
\* 200 leaves the written record with a name whose first character is upper
\* case, so every stored record's name starts with the upper-case form of
\* its first character.
C15_NamesCapitalised ==
  \A id \in DOMAIN store :
    LET q == store[id].name.s
    IN q # <<>> /\ ToUpperCase(q[1]) = <<q[1]>>

(***************************************************************************)
(* C16.  getAllServices.                                                   *)
(***************************************************************************)
\* C16: getAllServices answers 200 with every stored record exactly once,
\* in the order of their creation times, the latest first.
C16_AllNewestFirst ==
  req.op = "getAllServices"
    => /\ resp.status = 200
       /\ Len(resp.services) = Cardinality(DOMAIN store)
       /\ {resp.services[i] : i \in 1..Len(resp.services)} = {store[id] : id \in DOMAIN store}
       /\ \A i, j \in 1..Len(resp.services) :
            i < j => resp.services[i].createdAt >= resp.services[j].createdAt

\* two records created at different times were listed, the later one first
C16_Witness ==
  /\ req.op = "getAllServices" /\ resp.status = 200
  /\ Len(resp.services) = 2
  /\ resp.services[1].id = 2 /\ resp.services[1].createdAt = 1
  /\ resp.services[2].id = 1 /\ resp.services[2].createdAt = 0

(***************************************************************************)
(* C17.  deleteService removes one record.                                 *)
(***************************************************************************)
\* C17: deleteService on the id of a stored record answers 200 with a
\* confirmation that carries the id and the name of that record, removes that
\* record and leaves every other record as it was.
C17_DeleteRemovesExactlyOne ==
  [][(req'.op = "deleteService" /\ req'.id \in DOMAIN store)
       => /\ resp'.status = 200
          /\ DOMAIN store' = DOMAIN store \ {req'.id}
          /\ \A i \in DOMAIN store' : store'[i] = store[i]
          /\ Len(resp'.deletedService) = 1
          /\ resp'.deletedService[1].id = req'.id
          /\ resp'.deletedService[1].name = store[req'.id].name]_vars

\* the first of two records was deleted, the second is still stored
C17_Witness ==
  /\ req.op = "deleteService" /\ req.id = 1 /\ resp.status = 200
  /\ resp.deletedService[1].id = 1
  /\ DOMAIN store = {2}
  /\ deleted = {1}

(***************************************************************************)
(* C18.  one response per request, with a status of the operation's row.   *)
(***************************************************************************)
\* the statuses of an operation's row of the status table
C18_Row(op) ==
  CASE op = "getAllServices" -> {200, 500}
    [] op = "createService" -> {201, 400, 500}
    [] op = "getServiceById" -> {200, 404, 400, 500}
    [] op = "updateService" -> {200, 400, 404, 500}
    [] op = "deleteService" -> {200, 404, 400, 500}
    [] op = "getServicesByCategory" -> {200, 400, 500}
    [] op = "getServiceStats" -> {200, 500}
    [] OTHER -> {}

\* C18 as claimed: whatever fails - validation, a store call, a missing body -
\* the handler sends exactly one response, its status is one of the
\* operation's row, and no exception leaves the handler.
C18_OneResponseOfTheRow ==
  req.op # "none"
    => /\ resp.sent = 1
       /\ ~resp.escaped
       /\ resp.status \in C18_Row(req.op)

(***************************************************************************)
(* C19.  a failed update changes nothing.                                  *)
(***************************************************************************)
\* C19: an updateService request that answers anything but 200 (400, 404 or
\* 500) leaves the collection as it was, and getServiceById returns the
\* record as it is stored, so after a refused update it returns the values
\* from before the update.
C19_FailedUpdateKeepsStore ==
  [][/\ (req'.op = "updateService" /\ resp'.status # 200) => store' = store
     /\ (req'.op = "getServiceById" /\ resp'.status = 200)
          => resp'.service = <<store[req'.id]>>]_vars

\* an update to a negative price was refused and the stored price is the
\* one the record was created with
C19_Witness ==
  /\ req.op = "updateService" /\ req.id = 1
  /\ req.body.price = Num(-1)
  /\ resp.status = 400 /\ resp.errors # {}
  /\ store[1].price = Num(0)

(***************************************************************************)
(* C20.  the error detail of a 500 response.                               *)
(***************************************************************************)
\* C20: a 500 response of a handler carries the text of the internal error
\* only when NODE_ENV is 'development', where it is that text; in any other
\* environment the response is its status, the handler's fixed message and
\* nothing else, so it is the same whatever the text of the store error is.
C20_ErrorDetailOnlyInDevelopment ==
  (resp.status = 500 /\ resp.sent = 1)
    => /\ resp.error # Undef => env = "development"
       /\ (env = "development" /\ ~req.body.absent) => resp.error = Str(storeError)
       /\ env # "development"
            => resp = [Response EXCEPT !.sent = 1, !.status = 500,
                                       !.message = resp.message,
                                       !.queries = resp.queries]
       /\ resp.message \in {"Error interno del servidor al obtener servicios",
                            "Error interno del servidor al crear servicio",
                            "Error interno del servidor",
                            "Error interno del servidor al actualizar",
                            "Error interno del servidor al eliminar",
                            "Error interno del servidor al obtener estadisticas"}

\* the write of an update failed in production with the second error text
C20_Witness ==
  /\ req.op = "updateService" /\ req.fail = 2
  /\ resp.status = 500 /\ resp.sent = 1
  /\ env = "production" /\ storeError = <<"E", "2">>
  /\ resp.error = Undef

(***************************************************************************)
(* C21.  The frontend's payload check against its contract.                *)
(***************************************************************************)
\* the rules of the validation contract, stated on one field value
C21_Rule(p, v) ==
  CASE p = "name" -> IsStr(v) /\ Trim(v.s) # <<>> /\ Len(v.s) <= 100
    [] p = "category" -> IsStr(v) /\ v.s \in CategorySet
    [] p = "price" -> IsNum(v) /\ v.n >= 0
    [] p = "duration" -> IsStr(v) /\ Trim(v.s) # <<>>
    [] p = "description" -> IsStr(v) /\ Trim(v.s) # <<>> /\ Len(v.s) <= 500
    [] p = "status" -> v = Undef \/ (IsStr(v) /\ v.s \in StatusSet)
    [] OTHER -> v = Undef \/ (IsNum(v) /\ v.n >= 0)

\* C21: validateServiceData returns an empty violation list (isValid) exactly
\* for the payloads that satisfy every rule of the validation contract, price 0
\* included, and it leaves the payload as it is.
C21_ValidExactlyByContract ==
  [][ValidateForm =>
       /\ client'.isValid <=> \A p \in Paths : C21_Rule(p, payload[p])
       /\ client'.isValid <=> client'.errors = <<>> /\ ~client'.threw
       /\ payload' = payload]_vars

(***************************************************************************)
(* C22.  The task handlers answer like the service handlers.               *)
(***************************************************************************)
\* the status the service handlers give the outcome of the task request r on
\* the collection st: 400 for an identifier that does not cast or a body that
\* fails validation, 404 for an identifier without a record, 500 for a failing
\* store round trip
C22_ServiceStatus(r, st) ==
  LET byId == r.op \in {"getTaskById", "updateTask", "deleteTask"}
  IN CASE byId /\ r.id = 0 -> 400
       [] r.op = "getAllTasks" -> IF r.fail = 1 THEN 500 ELSE 200
       [] r.op = "createTask" ->
            IF r.body.title = Undef THEN 400 ELSE IF r.fail = 1 THEN 500 ELSE 201
       [] byId /\ r.id # 0 /\ r.fail = 1 -> 500
       [] byId /\ r.id # 0 /\ r.fail # 1 /\ r.id \notin DOMAIN st -> 404
       [] OTHER ->
            IF r.op = "updateTask" /\ r.body.completed.t = "string" THEN 400
            ELSE IF r.op # "getTaskById" /\ r.fail = 2 THEN 500
            ELSE 200

\* C22: every task request is answered with the status code the service
\* handlers give the same kind of outcome.
C22_TasksAnswerLikeServices ==
  [][now' = now => resp'.status = C22_ServiceStatus(req', tasks)]_vars

(***************************************************************************)
(* C23.  A start-up connection failure, and nothing else, ends the process.*)
(***************************************************************************)
\* C23: in every entry point the process has exited once the start-up
\* connection has failed and never otherwise, so no request to a path under
\* /api/ is answered after that failure by a process that has never reached
\* its store.
C23_StartupFailureIsFatal ==
  [][/\ app'.startup = "failed" <=> app'.exited
     /\ \A r \in 1..MaxRequests :
          (reqs[r].pc # "done" /\ reqs'[r].pc = "done" /\ StartsWithApi(reqs'[r].path))
            => (app.startup # "failed" \/ app'.ready)]_vars

(***************************************************************************)
(* C24.  The stats snapshot beside the writes of other clients.  With at   *)
(* most one write during the request the collections that existed between  *)
(* its start and its response are pending.start and store.                 *)
(***************************************************************************)
\* the eight query results a snapshot is built from
C24_Results(stats) ==
  <<stats.overview.totalServices, stats.overview.activeServices,
    stats.overview.newServices, stats.overview.pausedServices,
    stats.overview.inactiveServices, stats.clients, stats.categories, stats.pricing>>

\* C24 as claimed: the snapshot getServiceStats returns is the snapshot of one
\* single collection that existed between the start of the request and its
\* response, also when a write is executed between its queries.
C24_AsClaimed ==
  pending.pc = "done" =>
    \E s \in {pending.start, store} : resp.stats = <<StatsOf(s, now)>>

\* C24 (amended): each of the eight query results of the snapshot is computed
\* from a collection that existed between the start of the request and its
\* response, and the snapshot is that of a single collection when no write
\* changed the collection in between.
C24_EachResultFromOneState ==
  pending.pc = "done" =>
    /\ \A i \in 1..StatsQueries :
         \E s \in {pending.start, store} :
           C24_Results(resp.stats[1])[i] = C24_Results(StatsOf(s, now))[i]
    /\ store = pending.start => resp.stats = <<StatsOf(store, now)>>

\* a snapshot whose results come from two different collections
C24_Witness ==
  /\ pending.pc = "done"
  /\ resp.stats[1].overview.totalServices = 1
  /\ resp.stats[1].overview.activeServices = 2

(***************************************************************************)
(* C25.  The inline application against the routed application.            *)
(***************************************************************************)
\* C25: from every collection both applications can be in, the inline
\* application answers each request of the /api/services interface as the
\* routed application does, with the same response and the same stored
\* records; in particular GET /stats gives the stats snapshot.
C25_InlineAnswersLikeRouted ==
  [][/\ \A body \in ServiceInputs :
          InlineCreateService(body, 0) => CreateService(body, 0)
     /\ \A id \in IdInputs, body \in UpdateInputs :
          InlineUpdateService(id, body, 0) => UpdateService(id, body, 0)
     /\ \A id \in IdInputs : InlineDeleteService(id, 0) => DeleteService(id, 0)
     /\ \A r \in GetRequests : InlineGet(r, 0) => RoutedGet(r)]_vars

(***************************************************************************)
(* C26.  Two concurrent updates of one record.                             *)
(***************************************************************************)
\* requests r1 and r2 have both answered 200 for the same record, one of them
\* read the record while the other had read it and not yet written, and their
\* bodies set disjoint fields
C26_Concurrent(r1, r2) ==
  LET u1 == pending.updates[r1]
      u2 == pending.updates[r2]
  IN /\ r1 # r2
     /\ u1.pc = "done" /\ u2.pc = "done"
     /\ u1.status = 200 /\ u2.status = 200
     /\ u1.id = u2.id
     /\ u2.overlaps
     /\ \A p \in Paths : u1.body[p] = Undef \/ u2.body[p] = Undef

\* C26: when two concurrent updateService requests for one record change
\* disjoint fields and both answer 200, the stored record carries the values
\* both of them set.
C26_BothChangesKept ==
  \A r1, r2 \in 1..MaxRequests :
    (C26_Concurrent(r1, r2) /\ pending.updates[r1].id \in DOMAIN store) =>
      \A r \in {r1, r2}, p \in Paths :
        pending.updates[r].body[p] # Undef =>
          store[pending.updates[r].id][p] = pending.updates[r].doc[p]

\* both requests changed the record, and neither change is one the other made
C26_Witness ==
  /\ C26_Concurrent(1, 2)
  /\ pending.updates[1].delta # {} /\ pending.updates[2].delta # {}
  /\ 1 \in DOMAIN store
  /\ store[1].status = Str(Pausado) /\ store[1].clients = Num(4)

(***************************************************************************)
(* C27.  The connect attempts of the inline application.                   *)
(***************************************************************************)
\* C27: the inline application has at most one mongoose.connect call pending
\* at a time, a caller that finds one pending starting none of its own, and
\* while isConnected is true no call is started.
C27_OneConnectAtATime ==
  [][app.entry = "inline" =>
       /\ Cardinality(app'.calls) <= 1
       /\ app.isConnected => app'.calls \subseteq app.calls]_vars

(***************************************************************************)
(* C28. The connection middleware of the inline application.               *)
(***************************************************************************)
\* request r arrives in this step
C28_Arrives(r) == reqs[r].pc = "idle" /\ reqs'[r].pc # "idle"

\* C28: in the inline application a request for a guarded path reaches its
\* route only when connectMongoDB succeeded for it (isConnected was true on
\* arrival, or its own mongoose.connect call resolved) and a handler runs only
\* from the route; a request whose call rejects is answered 500 without its
\* handler and leaves isConnected false; a guarded request that arrives while
\* isConnected is false starts a connection attempt of its own (answered 500
\* at once when the attempt throws for the missing URI); requests for / and
\* /api/health go to their route without any call.
C28_HandlerOnlyAfterConnect ==
  [][app.entry = "inline" =>
       \A r \in 1..MaxRequests :
         /\ (reqs[r].pc # "route" /\ reqs'[r].pc = "route"
               /\ NeedsConnection(reqs'[r].path))
              => \/ C28_Arrives(r) /\ app.isConnected /\ app'.calls = app.calls
                 \/ /\ reqs[r].pc = "connecting"
                    /\ r \in app.calls /\ r \notin app'.calls
                    /\ app'.isConnected
         /\ (reqs'[r].ran /\ ~reqs[r].ran) => reqs[r].pc = "route"
         /\ (reqs[r].pc = "connecting" /\ reqs'[r].pc # "connecting"
               /\ ~app'.isConnected)
              => /\ reqs'[r].pc = "done" /\ reqs'[r].status = 500
                 /\ ~reqs'[r].ran
         /\ (reqs[r].pc = "connecting" /\ reqs'[r].pc = "done")
              => reqs'[r].status = 500 /\ ~reqs'[r].ran /\ ~app'.isConnected
         /\ (C28_Arrives(r) /\ NeedsConnection(reqs'[r].path) /\ ~app.isConnected)
              => \/ /\ app.uri /\ reqs'[r].pc = "connecting"
                    /\ r \in app'.calls /\ r \notin app.calls
                 \/ /\ ~app.uri /\ reqs'[r].pc = "done"
                    /\ reqs'[r].status = 500 /\ ~reqs'[r].ran
         /\ (C28_Arrives(r) /\ reqs'[r].path \in {<<>>, <<"api", "health">>})
              => app' = app /\ reqs'[r].pc = "route"]_vars

\* one request was answered 500 after its call rejected, without its handler,
\* while the connection attempt of a later request succeeded and its handler
\* ran
C28_Witness ==
  /\ app.entry = "inline" /\ app.startup = "failed" /\ app.isConnected
  /\ \E r1, r2 \in 1..MaxRequests :
       /\ reqs[r1].path = <<"api", "services">> /\ reqs[r1].pc = "done"
       /\ reqs[r1].status = 500 /\ ~reqs[r1].ran
       /\ reqs[r2].path = <<"api", "services">> /\ reqs[r2].pc = "done"
       /\ reqs[r2].status = 200 /\ reqs[r2].ran

(***************************************************************************)
(* C29.  The form's validator against the store schema.                    *)
(***************************************************************************)
\* C29: once the form has checked the payload and createService has answered
\* the same payload, the validator found it valid exactly when createService
\* answered 201.
C29_ValidatorAgreesWithSchema ==
  (client.checked /\ req.op = "createService")
    => (client.isValid <=> resp.status = 201)

(***************************************************************************)
(* C30.  The rows of the Products view.                                    *)
(***************************************************************************)
\* C30: once loading has finished without error the rows of the table are
\* exactly the records the last getAllServices returned that match the search
\* term and the category filter; when it returned none and no filter is set
\* the table shows the empty state with the 'Crear primer servicio' button.
C30_RowsReflectBackend ==
  (~view.loading /\ ~view.error)
    => /\ filteredServices = SelectSeq(view.services, MatchesFilters)
       /\ (/\ view.services = <<>>
           /\ view.searchTerm = <<>>
           /\ view.categoryFilter = <<"a", "l", "l">>) => ShowsEmptyState
====
